---------------------------- MODULE Spec2Model ----------------------------
(***************************************************************************)
(* ReactorAsterix: the packet dispatcher (AsterixPacketHandler), the       *)
(* FSPEC walker (AsterixCategoryHandler), the CAT 001 / CAT 002 category   *)
(* handlers with their data item handlers, the source-state store          *)
(* (SourceStateManager) and the truncated-time reconciler                  *)
(* (Asterix1Handler::expandTruncatedTime).                                 *)
(*                                                                         *)
(* Byte views (std::string_view) are sequences of 0..255, indexed from 1.  *)
(***************************************************************************)
EXTENDS Integers, Sequences, FiniteSets, TLC

VARIABLES
    stats,        \* AsterixPacketHandler::stats (AsterixStats counters)
    sources,      \* SourceStateManager::sources  (SAC,SIC) -> full TOD
    listeners,    \* per category handler: the listener registry (a sequence)
    alive,        \* listeners whose owner still holds them (weak_ptr not expired)
    categoryHandlers, \* AsterixPacketHandler::categoryHandlers: its non-null slots
    charSigned,   \* whether plain char is signed on the platform of the build
    last,         \* what the last handlePacket call did (its trace)
    tin,          \* expandTruncatedTime: the inputs and the result
    th,           \* the producer threads inside processDataRecord
    mutex,        \* listenerMutex of each category handler
    store,        \* accesses to SourceStateManager::sources in progress
    registering,  \* a category handler under registration: its FRN table
    traffic,      \* which fragments the buffers fed are made of
    categoryPool, \* AsterixPacketHandler::categoryPool, and the handler each
                  \* slot of categoryHandlers points to
    item          \* a data item handler applied to a view: the inputs, the result

vars == <<stats, sources, listeners, alive, categoryHandlers, charSigned,
         last, tin, th, mutex, store, registering, traffic, categoryPool, item>>

-----------------------------------------------------------------------------
(* Bounds of the model *)

\* handlePacket calls in one behaviour
MaxPackets == 2
\* fragments (blocks, runs of trailing bytes) fed in one behaviour
MaxFragments == 2
\* records each thread decodes in the concurrent specification
MaxThreadRecords == 2
\* MSP windows sampled at each end of the day by the time specification
EdgeWindows == 1
\* addHandler calls made before they are repeated in the registration
\* specification
MaxRegistrations == 2
\* registerCategoryHandler calls made on one dispatcher
MaxCategoryCalls == 3
\* addListener calls made on one category handler
MaxListenerCalls == 2
\* bytes of the longest view given to getSize in the item specification
MaxViewLength == 4
\* the largest initial length k and increment i of an extended-length handler
MaxExtent == 3

-----------------------------------------------------------------------------
(* Bit arithmetic on unsigned integers *)

RECURSIVE BitAnd(_, _)
BitAnd(a, b) ==
    IF a = 0 \/ b = 0 THEN 0
    ELSE (a % 2) * (b % 2) + 2 * BitAnd(a \div 2, b \div 2)

RECURSIVE BitOr(_, _)
BitOr(a, b) ==
    IF a = 0 THEN b
    ELSE IF b = 0 THEN a
    ELSE (IF a % 2 = 1 \/ b % 2 = 1 THEN 1 ELSE 0) + 2 * BitOr(a \div 2, b \div 2)

\* ~x on a uint8_t
Not8(x) == 255 - x

\* __builtin_clz(static_cast<uint32_t>(itemBits) << 24) for itemBits in 1..255:
\* the number of zero bits above the highest set bit of the byte
Clz8(b) ==
    IF b >= 128 THEN 0
    ELSE IF b >= 64 THEN 1
    ELSE IF b >= 32 THEN 2
    ELSE IF b >= 16 THEN 3
    ELSE IF b >= 8 THEN 4
    ELSE IF b >= 4 THEN 5
    ELSE IF b >= 2 THEN 6
    ELSE 7

\* 0x80 >> offset
Shr80(offset) == CASE offset = 0 -> 128 [] offset = 1 -> 64 [] offset = 2 -> 32
                   [] offset = 3 -> 16 [] offset = 4 -> 8 [] offset = 5 -> 4
                   [] offset = 6 -> 2 [] OTHER -> 1

\* 1 << bitIdx for bitIdx in 0..7
Shl1(bitIdx) == CASE bitIdx = 0 -> 1 [] bitIdx = 1 -> 2 [] bitIdx = 2 -> 4
                  [] bitIdx = 3 -> 8 [] bitIdx = 4 -> 16 [] bitIdx = 5 -> 32
                  [] bitIdx = 6 -> 64 [] OTHER -> 128

Max(a, b) == IF a >= b THEN a ELSE b

\* std::string_view::substr(pos) and remove_prefix(n)
Drop(sv, n) == SubSeq(sv, n + 1, Len(sv))
\* std::string_view::substr(0, n)
Take(sv, n) == SubSeq(sv, 1, n)

-----------------------------------------------------------------------------
(* Constants of the wire format *)

HEADER_SIZE == 3
MIN_BLOCK_SIZE == 5
MAX_FSPEC_SIZE == 10
FX_BIT == 1
MAX_FRNS == 128


-----------------------------------------------------------------------------
(* Data item handlers: size rules *)

\* AsterixDataItemHandlerFixedLength(length)
FixedLength(nm, length, mand) ==
    [name |-> nm, shape |-> "fixed", n |-> length, k |-> 0, i |-> 0, mandatory |-> mand]

\* AsterixDataItemHandlerExtendedLength(k, i)
ExtendedLength(nm, k0, i0, mand) ==
    [name |-> nm, shape |-> "extended", n |-> 0, k |-> k0, i |-> i0, mandatory |-> mand]

\* a null IAsterixDataItemHandler*
NoHandler ==
    [name |-> "nullptr", shape |-> "none", n |-> 0, k |-> 0, i |-> 0, mandatory |-> FALSE]

\* the while loop of AsterixDataItemHandlerExtendedLength::getSize:
\* currentPos (0-based) where the scan stops
RECURSIVE ExtScan(_, _, _)
ExtScan(data, currentPos, i) ==
    IF currentPos < Len(data) /\ BitAnd(data[currentPos + 1], 1) # 0
    THEN ExtScan(data, currentPos + i, i)
    ELSE currentPos

\* getSize without the check of the total size against the view
ExtGetSizeUnchecked(k, i, data) == ExtScan(data, k - 1, i) + 1

ExtGetSize(k, i, data) ==
    LET totalSize == ExtScan(data, k - 1, i) + 1
    IN  IF totalSize <= Len(data) THEN totalSize ELSE 0

GetSize(h, data) ==
    IF h.shape = "fixed" THEN h.n ELSE ExtGetSize(h.k, h.i, data)

-----------------------------------------------------------------------------
(* The handlers of CAT 001 and CAT 002 *)

I001_010_Handler == FixedLength("I001/010", 2, TRUE)
I001_020_Handler == ExtendedLength("I001/020", 1, 1, TRUE)
I001_040_Handler == FixedLength("I001/040", 4, FALSE)
I001_070_Handler == FixedLength("I001/070", 2, FALSE)
I001_090_Handler == FixedLength("I001/090", 2, FALSE)
I001_130_Handler == ExtendedLength("I001/130", 1, 1, FALSE)
I001_141_Handler == FixedLength("I001/141", 2, FALSE)
I001_050_Handler == FixedLength("I001/050", 2, FALSE)
I001_131_Handler == FixedLength("I001/131", 1, FALSE)
I001_150_Handler == FixedLength("I001/150", 1, FALSE)

I002_010_Handler == FixedLength("I002/010", 2, TRUE)
I002_000_Handler == FixedLength("I002/000", 1, TRUE)
I002_020_Handler == FixedLength("I002/020", 1, FALSE)
I002_030_Handler == FixedLength("I002/030", 3, TRUE)
I002_041_Handler == FixedLength("I002/041", 2, FALSE)
I002_050_Handler == ExtendedLength("I002/050", 1, 1, FALSE)

-----------------------------------------------------------------------------
(* AsterixCategoryHandler: the FRN table and the mandatory FSPEC mask *)

\* a freshly constructed AsterixCategoryHandler<T>
EmptyTable ==
    [itemLookup         |-> [f \in 1..MAX_FRNS |-> NoHandler],
     handlerOwnership   |-> <<>>,
     mandatoryFspec     |-> [b \in 1..20 |-> 0],
     mandatoryFspecSize |-> 0]

\* an addHandler that toggles the handler's bit of the mandatory mask
AddHandlerToggling(t, h, frn) ==
    IF h = NoHandler \/ frn = 0 \/ frn > MAX_FRNS THEN t
    ELSE
      LET byteIdx == (frn - 1) \div 7
          bitIdx  == 7 - ((frn - 1) % 7)
      IN  [itemLookup         |-> [t.itemLookup EXCEPT ![frn] = h],
           handlerOwnership   |-> Append(t.handlerOwnership, h),
           mandatoryFspec     |->
               IF h.mandatory
               THEN [t.mandatoryFspec EXCEPT ![byteIdx + 1] =
                        BitOr(@, Shl1(bitIdx)) - BitAnd(@, Shl1(bitIdx))]
               ELSE t.mandatoryFspec,
           mandatoryFspecSize |-> IF h.mandatory
                                  THEN Max(t.mandatoryFspecSize, byteIdx + 1)
                                  ELSE t.mandatoryFspecSize]

\* AsterixCategoryHandler::addHandler(h, frn); itemLookup[frn] here is
\* itemLookup[frn - 1] there, mandatoryFspec[b + 1] here is mandatoryFspec[b]
AddHandler(t, h, frn) ==
    IF h = NoHandler \/ frn = 0 \/ frn > MAX_FRNS THEN t
    ELSE
      LET byteIdx == (frn - 1) \div 7
          bitIdx  == 7 - ((frn - 1) % 7)
          mask    == IF h.mandatory
                     THEN [t.mandatoryFspec EXCEPT ![byteIdx + 1] = BitOr(@, Shl1(bitIdx))]
                     ELSE t.mandatoryFspec
          msize   == IF h.mandatory
                     THEN Max(t.mandatoryFspecSize, byteIdx + 1)
                     ELSE t.mandatoryFspecSize
          old     == t.itemLookup[frn]
          pool    == IF old # NoHandler
                     THEN SelectSeq(t.handlerOwnership, LAMBDA p : p # old)
                     ELSE t.handlerOwnership
      IN  [itemLookup         |-> [t.itemLookup EXCEPT ![frn] = h],
           handlerOwnership   |-> Append(pool, h),
           mandatoryFspec     |-> mask,
           mandatoryFspecSize |-> msize]

\* a sequence of addHandler calls, in order
RECURSIVE AddHandlers(_, _)
AddHandlers(t, regs) ==
    IF regs = <<>> THEN t
    ELSE AddHandlers(AddHandler(t, regs[1][1], regs[1][2]), Tail(regs))

\* a CAT 001 table whose I001/020 handler is not mandatory
Cat1TableSourceOnly ==
    AddHandlers(EmptyTable,
        << <<I001_010_Handler, 1>>, <<ExtendedLength("I001/020", 1, 1, FALSE), 2>>,
           <<I001_040_Handler, 3>>, <<I001_070_Handler, 4>>, <<I001_090_Handler, 5>>,
           <<I001_130_Handler, 6>>, <<I001_141_Handler, 7>>, <<I001_050_Handler, 8>>,
           <<I001_131_Handler, 10>>, <<I001_150_Handler, 15>> >>)


\* Asterix1Handler::registerHandlers
Cat1Table ==
    AddHandlers(EmptyTable,
        << <<I001_010_Handler, 1>>, <<I001_020_Handler, 2>>, <<I001_040_Handler, 3>>,
           <<I001_070_Handler, 4>>, <<I001_090_Handler, 5>>, <<I001_130_Handler, 6>>,
           <<I001_141_Handler, 7>>, <<I001_050_Handler, 8>>, <<I001_131_Handler, 10>>,
           <<I001_150_Handler, 15>> >>)

\* Asterix2Handler::registerHandlers
Cat2Table ==
    AddHandlers(EmptyTable,
        << <<I002_010_Handler, 1>>, <<I002_000_Handler, 2>>, <<I002_020_Handler, 3>>,
           <<I002_030_Handler, 4>>, <<I002_041_Handler, 5>>, <<I002_050_Handler, 6>> >>)

-----------------------------------------------------------------------------
(* Reports *)

\* a default-constructed Asterix1Report
Asterix1Report ==
    [cat |-> 1, sourceIdentifier |-> <<0, 0>>, TOD |-> 0,
     range |-> 0, azimuth |-> 0,
     mode3A |-> [present |-> FALSE, code |-> 0, validated |-> FALSE,
                 garbled |-> FALSE, local |-> FALSE],
     ssrHeight |-> [present |-> FALSE, value |-> 0, validated |-> FALSE,
                    garbled |-> FALSE],
     todLSP |-> 0, ssrpsr |-> 0, ds1ds2 |-> 0, spi |-> FALSE, hasLspClock |-> FALSE]

\* a default-constructed Asterix2Report
Asterix2Report ==
    [cat |-> 2, sourceIdentifier |-> <<0, 0>>, TOD |-> 0, antennaRaw |-> 0]

-----------------------------------------------------------------------------
(* Data item decoders.  Each yields [report, thrown]: thrown is TRUE when   *)
(* the decoder leaves by `throw uninterpretedItem()`.                       *)

Decoded(r) == [report |-> r, thrown |-> FALSE]
Thrown(r)  == [report |-> r, thrown |-> TRUE]

\* a decode that leaves the report's source identifier as it was constructed
I0xx_010_keepDefault(report, data) ==
    Decoded(report)

\* I001_010_Handler::decode, I002_010_Handler::decode
I0xx_010_decode(report, data) ==
    Decoded([report EXCEPT !.sourceIdentifier = <<data[1], data[2]>>])

\* I001_020_Handler::decode
I001_020_decode(report, data) ==
    LET octet1 == data[1]
        r1 == [report EXCEPT !.ssrpsr = BitAnd(octet1, 48) \div 16]
        r2 == IF BitAnd(octet1, 4) # 0 THEN [r1 EXCEPT !.spi = TRUE] ELSE r1
    IN  IF BitAnd(octet1, 192) # 0 THEN Thrown(report)
        ELSE IF BitAnd(octet1, 1) # 0
        THEN LET octet2 == data[2]
                 r3 == [r2 EXCEPT !.ds1ds2 = BitAnd(octet2, 96) \div 32]
             IN  IF BitAnd(octet2, 152) # 0 THEN Thrown(r2)
                 ELSE IF BitAnd(octet2, 1) # 0 THEN Thrown(r3)
                 ELSE Decoded(r3)
        ELSE Decoded(r2)

\* ntohs of two bytes copied from the view
Be16(data, off) == data[off + 1] * 256 + data[off + 2]

\* (static_cast<double>(rawRange) / 128.0) * 1852.0, in 1/128 m: the division
\* by a power of two and the product of a 16-bit by an 11-bit integer are
\* exact in a double
Range(rawRange) == rawRange * 1852

\* static_cast<double>(rawAzimuth) * AZIMUTH_SCALE with AZIMUTH_SCALE =
\* 0.00009587379, in 1e-8 rad rounded down (9587.379 = 9587 + 379 / 1000)
Azimuth(rawAzimuth) == rawAzimuth * 9587 + (rawAzimuth * 379) \div 1000

\* a decode that takes the azimuth from the first two bytes and the range from
\* the last two
I001_040_exchanged(report, data) ==
    [report |-> [report EXCEPT !.range = Range(data[3] * 256 + data[4]),
                               !.azimuth = Azimuth(data[1] * 256 + data[2])],
     thrown |-> FALSE]

\* I001_040_Handler::decode
I001_040_decode(report, data) ==
    Decoded([report EXCEPT !.range = Range(Be16(data, 0)),
                           !.azimuth = Azimuth(Be16(data, 2))])

\* I001_070_Handler::decode
I001_070_decode(report, data) ==
    LET mode3ATemp == Be16(data, 0)
    IN  Decoded([report EXCEPT !.mode3A =
            [present   |-> TRUE,
             code      |-> BitAnd(mode3ATemp, 4095),
             validated |-> BitAnd(mode3ATemp, 32768) # 0,
             garbled   |-> BitAnd(mode3ATemp, 16384) # 0,
             local     |-> BitAnd(mode3ATemp, 8192) # 0]])

\* a decode of I001/090 that leaves the report without Mode-C
I001_090_absent(report, data) ==
    Decoded(report)

\* I001_090_Handler::decode (value is flValue, the int16_t; height = value * 7.62)
I001_090_decode(report, data) ==
    LET t0 == Be16(data, 0)
        t1 == BitAnd(t0, 16383)
        t2 == IF BitAnd(t1, 8192) # 0 THEN BitOr(t1, 49152) ELSE t1
        flValue == IF t2 >= 32768 THEN t2 - 65536 ELSE t2
    IN  Decoded([report EXCEPT !.ssrHeight =
            [present   |-> TRUE,
             value     |-> flValue,
             validated |-> BitAnd(t0, 32768) # 0,
             garbled   |-> BitAnd(t0, 16384) # 0]])

\* a char of the view converted to int: sign-extended where char is signed
CharToInt(b, signedChar) == IF signedChar /\ b >= 128 THEN b - 256 ELSE b

\* the low 16 bits of a two's complement int in -2^23 .. 2^24
Low16(x) == ((x % 65536) + 65536) % 65536

\* bitwise OR of two ints given by their low 16 bits
Or16(x, y) == BitOr(Low16(x), Low16(y))

\* I001_141_Handler::decode:
\*   report.todLSP = (static_cast<uint16_t>(data[0]) << 8) | data[1];
\* data[i] is a char, whose signedness the platform chooses
I001_141_decode(report, data, signedChar) ==
    LET hi == Low16(CharToInt(data[1], signedChar)) * 256
        lo == CharToInt(data[2], signedChar)
    IN  Decoded([report EXCEPT !.todLSP = Or16(hi, lo), !.hasLspClock = TRUE])

\* I002_030_Handler::decode
I002_030_decode(report, data) ==
    Decoded([report EXCEPT !.TOD = data[1] * 65536 + data[2] * 256 + data[3]])

\* I002_041_Handler::decode (antennaSpeed = antennaRaw / 128.0f)
I002_041_decode(report, data) ==
    Decoded([report EXCEPT !.antennaRaw = Be16(data, 0)])

\* handler->decode(context, data): the virtual call
Decode(h, report, data, signedChar) ==
    CASE h.name \in {"I001/010", "I002/010"} -> I0xx_010_decode(report, data)
      [] h.name = "I001/020" -> I001_020_decode(report, data)
      [] h.name = "I001/040" -> I001_040_decode(report, data)
      [] h.name = "I001/070" -> I001_070_decode(report, data)
      [] h.name = "I001/090" -> I001_090_decode(report, data)
      [] h.name = "I001/141" -> I001_141_decode(report, data, signedChar)
      [] h.name = "I002/030" -> I002_030_decode(report, data)
      [] h.name = "I002/041" -> I002_041_decode(report, data)
      [] OTHER -> Decoded(report)   \* AsterixDataItemHandlerBase::decode

-----------------------------------------------------------------------------
(* AsterixCategoryHandler::_processDataRecordInternal                       *)
(* The result: consumed (the return value), counter (the AsterixStats       *)
(* member abortWithStat incremented, or "none"), report, thrown, ndecoded   *)
(* (decode calls made), sizes (sum of the sizes of the decoded items).      *)

WalkResult(c, ctr, r, t, n, sz) ==
    [consumed |-> c, counter |-> ctr, report |-> r, thrown |-> t,
     ndecoded |-> n, sizes |-> sz]

\* the loops `for (const char c : fspec)` and `while (itemBits)`:
\* bi is the index of the current FSPEC byte, itemBits its bits still to do
RECURSIVE WalkFspec(_, _, _, _, _, _, _, _, _, _)

\* a walk that drops the other item bits of the byte after a decode
WalkDecodedFirstOfByte(t, fspec, payload, bi, itemBits, frn_base, remainingData, n, cs, offset, itemSize, d) ==
    IF d.thrown
    THEN WalkResult(0, "none", d.report, TRUE, n + 1, Len(payload) - Len(remainingData))
    ELSE WalkFspec(t, fspec, payload, bi, 0,
                   frn_base, Drop(remainingData, itemSize), d.report, n + 1, cs)

\* after handler->decode(context, remainingData.substr(0, itemSize)) gave d
WalkDecoded(t, fspec, payload, bi, itemBits, frn_base, remainingData, n, cs, offset, itemSize, d) ==
    IF d.thrown
    THEN WalkResult(0, "none", d.report, TRUE, n + 1, Len(payload) - Len(remainingData))
    ELSE WalkFspec(t, fspec, payload, bi, BitAnd(itemBits, Not8(Shr80(offset))),
                   frn_base, Drop(remainingData, itemSize), d.report, n + 1, cs)

\* a walk that, at an item without handler, returns what it consumed so far
WalkItemKeepsDecoded(t, fspec, payload, bi, itemBits, frn_base, remainingData, report, n, cs, offset, handler, itemSize) ==
    IF handler = NoHandler
    THEN WalkResult(Len(payload) - Len(remainingData), "unhandledItems", report, FALSE, n,
                    Len(payload) - Len(remainingData))
    ELSE IF itemSize = 0 \/ itemSize > Len(remainingData)
    THEN WalkResult(0, "malformedRecords", report, FALSE, n,
                    Len(payload) - Len(remainingData))
    ELSE WalkDecoded(t, fspec, payload, bi, itemBits, frn_base, remainingData, n, cs,
                     offset, itemSize,
                     Decode(handler, report, Take(remainingData, itemSize), cs))

\* one item: the handler found for currentFrn and the size it reports
WalkItem(t, fspec, payload, bi, itemBits, frn_base, remainingData, report, n, cs, offset, handler, itemSize) ==
    IF handler = NoHandler
    THEN WalkResult(0, "unhandledItems", report, FALSE, n,
                    Len(payload) - Len(remainingData))
    ELSE IF itemSize = 0 \/ itemSize > Len(remainingData)
    THEN WalkResult(0, "malformedRecords", report, FALSE, n,
                    Len(payload) - Len(remainingData))
    ELSE WalkDecoded(t, fspec, payload, bi, itemBits, frn_base, remainingData, n, cs,
                     offset, itemSize,
                     Decode(handler, report, Take(remainingData, itemSize), cs))

WalkFspec(t, fspec, payload, bi, itemBits, frn_base, remainingData, report, n, cs) ==
    IF bi > Len(fspec)
    THEN WalkResult(0, "malformedRecords", report, FALSE, n, Len(payload) - Len(remainingData))
    ELSE IF itemBits # 0
    THEN WalkItem(t, fspec, payload, bi, itemBits, frn_base, remainingData, report, n, cs,
                  Clz8(itemBits), t.itemLookup[frn_base + Clz8(itemBits)],
                  IF t.itemLookup[frn_base + Clz8(itemBits)] = NoHandler THEN 0
                  ELSE GetSize(t.itemLookup[frn_base + Clz8(itemBits)], remainingData))
    ELSE IF BitAnd(fspec[bi], 1) = 0
    THEN WalkResult(Len(payload) - Len(remainingData), "none", report, FALSE, n,
                    Len(payload) - Len(remainingData))
    ELSE WalkFspec(t, fspec, payload, bi + 1,
                   IF bi + 1 > Len(fspec) THEN 0 ELSE BitAnd(fspec[bi + 1], 254),
                   frn_base + 7, remainingData, report, n, cs)

\* the test with its operands exchanged: fspec[i] & ~mandatoryFspec[i]
MandatoryExchanged(t, fspec) ==
    \E i \in 1..t.mandatoryFspecSize : BitAnd(fspec[i], Not8(t.mandatoryFspec[i])) # 0

\* mandatoryFspec[i] & ~fspec[i] for some i < mandatoryFspecSize
MandatoryMissing(t, fspec) ==
    \E i \in 1..t.mandatoryFspecSize : BitAnd(t.mandatoryFspec[i], Not8(fspec[i])) # 0

ProcessDataRecordInternal(t, fspec, payload, report, cs) ==
    IF Len(fspec) < t.mandatoryFspecSize
    THEN WalkResult(0, "protocolViolations", report, FALSE, 0, 0)
    ELSE IF MandatoryMissing(t, fspec)
    THEN WalkResult(0, "protocolViolations", report, FALSE, 0, 0)
    ELSE IF Len(fspec) = 0
    THEN WalkResult(0, "malformedRecords", report, FALSE, 0, 0)
    ELSE WalkFspec(t, fspec, payload, 1, BitAnd(fspec[1], 254), 1, payload, report, 0, cs)

-----------------------------------------------------------------------------
(* Asterix1Handler::expandTruncatedTime *)

maxTOD == 86400 * 128
kWindow == 65536
\* x & kMspMask, kMspMask = 0xFFFF0000, for a uint32_t x
MspOf(x) == x - (x % kWindow)
kTopMsp == MspOf(maxTOD - 1)
HALF_DAY == maxTOD \div 2

\* getDist without the test T >= maxTOD
getDistUnchecked(T, refTOD) ==
    LET d == IF T > refTOD THEN T - refTOD ELSE refTOD - T
    IN  IF d > HALF_DAY THEN maxTOD - d ELSE d

\* maxTOD - d on uint32_t: for d > maxTOD the difference wraps to 2^32 - k,
\* k = d - maxTOD.  The wrapped value is kept as 2^31 - k, which compares with
\* every other distance as 2^32 - k does (distances are only compared)
WrappedDistance(d) ==
    IF d > maxTOD THEN 2147483647 - (d - maxTOD - 1) ELSE maxTOD - d

\* the lambda getDist of expandTruncatedTime
getDist(T, refTOD) ==
    IF T >= maxTOD THEN maxTOD
    ELSE LET d == IF T > refTOD THEN T - refTOD ELSE refTOD - T
         IN  IF d > HALF_DAY THEN WrappedDistance(d) ELSE d

\* candidates that do not wrap at midnight
CandidatesNoWrap(todLSP, refTOD) ==
    LET refMSP == MspOf(refTOD)
        todA   == BitOr(refMSP, todLSP)
    IN  [A |-> todA,
         B |-> IF refMSP > 0 THEN todA - kWindow ELSE todA,
         C |-> IF refMSP < kTopMsp THEN todA + kWindow ELSE todA]

\* the three candidates todA, todB, todC
Candidates(todLSP, refTOD) ==
    LET refMSP == MspOf(refTOD)
        todA   == BitOr(refMSP, todLSP)
        todB   == IF refMSP > 0 THEN todA - kWindow ELSE BitOr(kTopMsp, todLSP)
        todC   == IF refMSP < kTopMsp THEN todA + kWindow ELSE todLSP
    IN  [A |-> todA, B |-> todB, C |-> todC]

\* expandTruncatedTime taking a later candidate on equal distance (<= for <)
expandPreferLater(todLSP, refTOD) ==
    LET c  == Candidates(todLSP, refTOD)
        dA == getDist(c.A, refTOD)
        dB == getDist(c.B, refTOD)
        dC == getDist(c.C, refTOD)
        best1 == IF dB <= dA THEN c.B ELSE c.A
        min1  == IF dB <= dA THEN dB ELSE dA
    IN  IF dC <= min1 THEN c.C ELSE best1

expandTruncatedTime(todLSP, refTOD) ==
    LET c  == Candidates(todLSP, refTOD)
        dA == getDist(c.A, refTOD)
        dB == getDist(c.B, refTOD)
        dC == getDist(c.C, refTOD)
        best1 == IF dB < dA THEN c.B ELSE c.A
        min1  == IF dB < dA THEN dB ELSE dA
    IN  IF dC < min1 THEN c.C ELSE best1

-----------------------------------------------------------------------------
(* SourceStateManager *)

\* getReferenceTime(si).value_or(dflt)
GetReferenceTimeOr(src, si, dflt) == IF si \in DOMAIN src THEN src[si] ELSE dflt

\* an update that leaves the store with the entry of si alone
UpdateSourceTimeAlone(src, si, fullTod) == [k \in {si} |-> fullTod]


\* updateSourceTime(si, fullTod): sources.insert_or_assign
UpdateSourceTime(src, si, fullTod) ==
    [k \in DOMAIN src \cup {si} |-> IF k = si THEN fullTod ELSE src[k]]

-----------------------------------------------------------------------------
(* The category handlers' processDataRecord.                                *)
(* m is the state the call works on: stats, sources, listeners, and the     *)
(* trace of the call: out (callbacks made), writes (updateSourceTime calls),*)
(* log (one entry per record handed to a category handler).                 *)
(* env holds what the call reads from outside: now (calculateCurrentTod),   *)
(* alive (the listeners a weak_ptr can still lock), charSigned.             *)

\* a counter raised by 2 where the code raises it by 1
BumpTwice(st, counter) ==
    IF counter = "none" THEN st ELSE [st EXCEPT ![counter] = @ + 2]


Bump(st, counter) ==
    IF counter = "none" THEN st ELSE [st EXCEPT ![counter] = @ + 1]

\* callbacks made to every entry of the registry, expired or not
FanOutAll(reg, live, report) ==
    [j \in 1..Len(reg) |-> [listener |-> reg[j], report |-> report]]

\* the callbacks, in registry order, to the listeners that are still alive
FanOut(reg, live, report) ==
    LET Live(l) == l \in live
        ls == SelectSeq(reg, Live)
    IN  [j \in 1..Len(ls) |-> [listener |-> ls[j], report |-> report]]

\* the registry without its expired entries
Prune(reg, live) == LET Live(l) == l \in live IN SelectSeq(reg, Live)

\* Asterix1Handler::processDataRecord, after _processDataRecordInternal gave w
Asterix1AfterDecode(m, w, env) ==
    LET si  == w.report.sourceIdentifier
        ref == GetReferenceTimeOr(m.sources, si, env.now)
        tod == IF w.report.hasLspClock
               THEN expandTruncatedTime(w.report.todLSP, ref)
               ELSE ref
    IN  IF w.thrown
        THEN [m |-> m, consumed |-> 0, thrown |-> TRUE, walk |-> w]
        ELSE IF w.consumed > 0
        THEN [m |-> [m EXCEPT
                      !.sources = UpdateSourceTime(@, si, tod),
                      !.writes = Append(@, <<si, tod>>),
                      !.out = @ \o FanOut(m.listeners[1], env.alive,
                                          [w.report EXCEPT !.TOD = tod]),
                      !.listeners[1] = Prune(@, env.alive)],
              consumed |-> w.consumed, thrown |-> FALSE, walk |-> w]
        ELSE [m |-> [m EXCEPT !.stats = Bump(@, w.counter)],
              consumed |-> 0, thrown |-> FALSE, walk |-> w]

\* Asterix1Handler::processDataRecord
Asterix1ProcessDataRecord(m, fspec, payload, env) ==
    Asterix1AfterDecode(m,
        ProcessDataRecordInternal(Cat1Table, fspec, payload, Asterix1Report, env.charSigned),
        env)

\* Asterix2AfterDecode updating the store before it looks at consumed
Asterix2UpdateFirst(m, w, env) ==
    [m |-> [m EXCEPT
             !.sources = UpdateSourceTime(@, w.report.sourceIdentifier, w.report.TOD),
             !.writes = Append(@, <<w.report.sourceIdentifier, w.report.TOD>>),
             !.stats = IF w.consumed > 0 THEN @ ELSE Bump(@, w.counter),
             !.out = IF w.consumed > 0 THEN @ \o FanOut(m.listeners[2], env.alive, w.report)
                     ELSE @,
             !.listeners[2] = IF w.consumed > 0 THEN Prune(@, env.alive) ELSE @],
     consumed |-> w.consumed, thrown |-> FALSE, walk |-> w]

\* Asterix2Handler::processDataRecord, after _processDataRecordInternal gave w
Asterix2AfterDecode(m, w, env) ==
    IF w.consumed > 0
    THEN [m |-> [m EXCEPT
                  !.sources = UpdateSourceTime(@, w.report.sourceIdentifier, w.report.TOD),
                  !.writes = Append(@, <<w.report.sourceIdentifier, w.report.TOD>>),
                  !.out = @ \o FanOut(m.listeners[2], env.alive, w.report),
                  !.listeners[2] = Prune(@, env.alive)],
          consumed |-> w.consumed, thrown |-> FALSE, walk |-> w]
    ELSE [m |-> [m EXCEPT !.stats = Bump(@, w.counter)],
          consumed |-> 0, thrown |-> FALSE, walk |-> w]

\* Asterix2Handler::processDataRecord
Asterix2ProcessDataRecord(m, fspec, payload, env) ==
    Asterix2AfterDecode(m,
        ProcessDataRecordInternal(Cat2Table, fspec, payload, Asterix2Report, env.charSigned),
        env)

\* the entry of the call's trace for one record handed to a category handler:
\* the payload it was given, what the handler returned (r), how many
\* updateSourceTime calls and how many callbacks it made, and where in the
\* call's sequence of callbacks its own begin
Traced(handler, m, fspec, payload, r) ==
    [m |-> [r.m EXCEPT !.log = Append(@,
               [handler  |-> handler,
                fspec    |-> fspec,
                consumed |-> r.consumed,
                thrown   |-> r.thrown,
                counter  |-> r.walk.counter,
                ndecoded |-> r.walk.ndecoded,
                sizes    |-> r.walk.sizes,
                sourceIdentifier |-> r.walk.report.sourceIdentifier,
                wrote    |-> Len(r.m.writes) - Len(m.writes),
                called   |-> Len(r.m.out) - Len(m.out),
                outFrom  |-> Len(m.out),
                payload  |-> payload,
                block    |-> Len(m.blocks) + 1])],
     consumed |-> r.consumed, thrown |-> r.thrown]

\* handler->processDataRecord(fspec, payload): the virtual call
ProcessDataRecord(handler, m, fspec, payload, env) ==
    Traced(handler, m, fspec, payload,
           IF handler = "Asterix1Handler"
           THEN Asterix1ProcessDataRecord(m, fspec, payload, env)
           ELSE Asterix2ProcessDataRecord(m, fspec, payload, env))

-----------------------------------------------------------------------------
(* AsterixPacketHandler *)

\* the scan stopping one byte later: fspecSize > MAX_FSPEC_SIZE
RECURSIVE FspecScanLate(_, _, _, _)
FspecScanLate(recordView, fspecSize, lastDataIdx, lastDataValue) ==
    IF fspecSize >= Len(recordView) \/ fspecSize > MAX_FSPEC_SIZE
    THEN [ok |-> FALSE, fspecSize |-> fspecSize,
          lastDataIdx |-> lastDataIdx, lastDataValue |-> lastDataValue]
    ELSE IF BitAnd(recordView[fspecSize + 1], FX_BIT) = 0
    THEN [ok |-> TRUE, fspecSize |-> fspecSize + 1,
          lastDataIdx |-> IF recordView[fspecSize + 1] > 1 THEN fspecSize
                          ELSE lastDataIdx,
          lastDataValue |-> IF recordView[fspecSize + 1] > 1
                            THEN recordView[fspecSize + 1] ELSE lastDataValue]
    ELSE FspecScanLate(recordView, fspecSize + 1,
                       IF recordView[fspecSize + 1] > 1 THEN fspecSize ELSE lastDataIdx,
                       IF recordView[fspecSize + 1] > 1 THEN recordView[fspecSize + 1]
                       ELSE lastDataValue)

\* the scan `while (true)` of dispatchRecord: [ok, fspecSize, lastDataIdx,
\* lastDataValue]; ok is FALSE where the scan returns 0
RECURSIVE FspecScan(_, _, _, _)
FspecScan(recordView, fspecSize, lastDataIdx, lastDataValue) ==
    IF fspecSize >= Len(recordView) \/ fspecSize >= MAX_FSPEC_SIZE
    THEN [ok |-> FALSE, fspecSize |-> fspecSize,
          lastDataIdx |-> lastDataIdx, lastDataValue |-> lastDataValue]
    ELSE IF BitAnd(recordView[fspecSize + 1], FX_BIT) = 0
    THEN [ok |-> TRUE, fspecSize |-> fspecSize + 1,
          lastDataIdx |-> IF recordView[fspecSize + 1] > 1 THEN fspecSize
                          ELSE lastDataIdx,
          lastDataValue |-> IF recordView[fspecSize + 1] > 1
                            THEN recordView[fspecSize + 1] ELSE lastDataValue]
    ELSE FspecScan(recordView, fspecSize + 1,
                   IF recordView[fspecSize + 1] > 1 THEN fspecSize ELSE lastDataIdx,
                   IF recordView[fspecSize + 1] > 1 THEN recordView[fspecSize + 1]
                   ELSE lastDataValue)

\* a dispatchRecord that returns the handler's count without the FSPEC's size
DispatchedPayloadOnly(sc, r) ==
    IF r.thrown THEN [m |-> r.m, consumed |-> 0, thrown |-> TRUE]
    ELSE [m |-> r.m, consumed |-> r.consumed, thrown |-> FALSE]

\* dispatchRecord after the call of handler->processDataRecord returned r
Dispatched(sc, r) ==
    IF r.thrown THEN [m |-> r.m, consumed |-> 0, thrown |-> TRUE]
    ELSE IF r.consumed > 0
    THEN [m |-> r.m, consumed |-> sc.fspecSize + r.consumed, thrown |-> FALSE]
    ELSE [m |-> r.m, consumed |-> 0, thrown |-> FALSE]

\* dispatchRecord after the FSPEC scan gave sc
DispatchScanned(m, recordView, handler, env, sc) ==
    IF ~sc.ok THEN [m |-> m, consumed |-> 0, thrown |-> FALSE]
    ELSE IF sc.lastDataValue > 0 /\ sc.lastDataIdx > 18
    THEN [m |-> m, consumed |-> 0, thrown |-> FALSE]
    ELSE IF sc.lastDataValue > 0 /\ sc.lastDataIdx = 18
            /\ BitAnd(sc.lastDataValue, 62) # 0
    THEN [m |-> m, consumed |-> 0, thrown |-> FALSE]
    ELSE IF sc.fspecSize > Len(recordView)
    THEN [m |-> m, consumed |-> 0, thrown |-> FALSE]
    ELSE Dispatched(sc, ProcessDataRecord(handler, m, Take(recordView, sc.fspecSize),
                                          Drop(recordView, sc.fspecSize), env))

\* AsterixPacketHandler::dispatchRecord
DispatchRecord(m, recordView, handler, env) ==
    DispatchScanned(m, recordView, handler, env, FspecScan(recordView, 0, 0, 0))

\* the loop `while (offset < length)` of processDataBlock
RECURSIVE RecordLoop(_, _, _, _, _, _)

\* the entry of the call's trace for one dispatchRecord call: the block and
\* the offset it was made at, what it returned, and the entry of the log its
\* category handler call left (0 when dispatchRecord never reached the handler)
Dispatch(offset, nlog, d) ==
    [block    |-> Len(d.m.blocks) + 1,
     offset   |-> offset,
     consumed |-> d.consumed,
     thrown   |-> d.thrown,
     log      |-> IF Len(d.m.log) > nlog THEN Len(d.m.log) ELSE 0]

\* a loop that stops at a record dispatchRecord returned 0 for without counting it
RecordStepSilent(block, length, offset, handler, env, nlog, d) ==
    IF d.thrown
    THEN [m |-> [d.m EXCEPT !.recs = Append(@, Dispatch(offset, nlog, d))],
          thrown |-> TRUE]
    ELSE IF d.consumed > 0
    THEN RecordLoop([d.m EXCEPT !.recs = Append(@, Dispatch(offset, nlog, d))],
                    block, length, offset + d.consumed, handler, env)
    ELSE [m |-> [d.m EXCEPT !.recs = Append(@, Dispatch(offset, nlog, d))],
          thrown |-> FALSE]

\* one turn of the loop, after dispatchRecord returned d
RecordStep(block, length, offset, handler, env, nlog, d) ==
    IF d.thrown
    THEN [m |-> [d.m EXCEPT !.recs = Append(@, Dispatch(offset, nlog, d))],
          thrown |-> TRUE]
    ELSE IF d.consumed > 0
    THEN RecordLoop([d.m EXCEPT !.recs = Append(@, Dispatch(offset, nlog, d))],
                    block, length, offset + d.consumed, handler, env)
    ELSE [m |-> [d.m EXCEPT !.stats.recordParseErrors = @ + 1,
                            !.recs = Append(@, Dispatch(offset, nlog, d))],
          thrown |-> FALSE]

\* a record loop that hands dispatchRecord the bytes up to the end of the
\* buffer: block.substr(offset)
RecordLoopToBufferEnd(m, block, length, offset, handler, env) ==
    IF offset >= length THEN [m |-> m, thrown |-> FALSE]
    ELSE RecordStep(block, length, offset, handler, env, Len(m.log),
                    DispatchRecord(m, Drop(block, offset), handler, env))

RecordLoop(m, block, length, offset, handler, env) ==
    IF offset >= length THEN [m |-> m, thrown |-> FALSE]
    ELSE RecordStep(block, length, offset, handler, env, Len(m.log),
                    DispatchRecord(m, SubSeq(block, offset + 1, length), handler, env))

\* a processDataBlock that refuses the block of a category without handler
BlockBodyUnknownRejected(m, block, env, length, handler) ==
    IF length < HEADER_SIZE \/ length > Len(block) \/ handler = "nullptr"
    THEN [m |-> m, length |-> 0, thrown |-> FALSE]
    ELSE [length |-> length] @@ RecordLoop(m, block, length, HEADER_SIZE, handler, env)

\* a processDataBlock that accepts a declared length shorter than the header
BlockBodyShortAccepted(m, block, env, length, handler) ==
    IF length < 1 \/ length > Len(block)
    THEN [m |-> m, length |-> 0, thrown |-> FALSE]
    ELSE IF handler # "nullptr"
    THEN [length |-> length] @@ RecordLoop(m, block, length, HEADER_SIZE, handler, env)
    ELSE [m |-> [m EXCEPT !.stats.unhandledCategories = @ + 1],
          length |-> length, thrown |-> FALSE]

\* processDataBlock once the header is read
BlockBody(m, block, env, length, handler) ==
    IF length < HEADER_SIZE \/ length > Len(block)
    THEN [m |-> m, length |-> 0, thrown |-> FALSE]
    ELSE IF handler # "nullptr"
    THEN [length |-> length] @@ RecordLoop(m, block, length, HEADER_SIZE, handler, env)
    ELSE [m |-> [m EXCEPT !.stats.unhandledCategories = @ + 1],
          length |-> length, thrown |-> FALSE]

\* AsterixPacketHandler::processDataBlock: length is the return value
ProcessDataBlock(m, block, env) ==
    IF Len(block) < HEADER_SIZE THEN [m |-> m, length |-> 0, thrown |-> FALSE]
    ELSE BlockBody(m, block, env, Be16(block, 1),
                   IF block[1] \in DOMAIN env.categoryHandlers
                   THEN env.categoryHandlers[block[1]]
                   ELSE "nullptr")

\* Trail counting only a remainder too short to hold a block
TrailShortOnly(m, n) ==
    IF n > 0 /\ n < MIN_BLOCK_SIZE THEN [m EXCEPT !.stats.trailingBytesCount = @ + n] ELSE m

\* stats.trailingBytesCount.fetch_add(buffer.size()) if the buffer is not empty
Trail(m, n) == IF n > 0 THEN [m EXCEPT !.stats.trailingBytesCount = @ + n] ELSE m

\* the loop `while (buffer.size() >= MIN_BLOCK_SIZE)` of handlePacket and the
\* trailing-bytes count after it; pos is the number of bytes removed so far
RECURSIVE BlockLoop(_, _, _, _)

\* BlockStep leaving the loop on a rejected header without counting it
BlockStepUncounted(data, pos, env, blk, b) ==
    IF b.thrown
    THEN [m |-> [b.m EXCEPT !.blocks = Append(@, blk @@ [length |-> b.length])],
          thrown |-> TRUE]
    ELSE IF b.length > 0
    THEN BlockLoop([b.m EXCEPT !.blocks = Append(@, blk @@ [length |-> b.length])],
                   data, pos + b.length, env)
    ELSE [m |-> Trail([b.m EXCEPT !.blocks = Append(@, blk @@ [length |-> 0])],
                      Len(data) - pos),
          thrown |-> FALSE]

\* a loop that, after a rejected header, looks for a block one byte further
BlockStepResync(data, pos, env, blk, b) ==
    IF b.thrown
    THEN [m |-> [b.m EXCEPT !.blocks = Append(@, blk @@ [length |-> b.length])],
          thrown |-> TRUE]
    ELSE IF b.length > 0
    THEN BlockLoop([b.m EXCEPT !.blocks = Append(@, blk @@ [length |-> b.length])],
                   data, pos + b.length, env)
    ELSE BlockLoop([b.m EXCEPT !.stats.malformedBlocks = @ + 1,
                               !.stats.trailingBytesCount = @ + 1,
                               !.blocks = Append(@, blk @@ [length |-> 0])],
                   data, pos + 1, env)

\* one turn of the loop, after processDataBlock(buffer) returned b
BlockStep(data, pos, env, blk, b) ==
    IF b.thrown
    THEN [m |-> [b.m EXCEPT !.blocks = Append(@, blk @@ [length |-> b.length])],
          thrown |-> TRUE]
    ELSE IF b.length > 0
    THEN BlockLoop([b.m EXCEPT !.blocks = Append(@, blk @@ [length |-> b.length])],
                   data, pos + b.length, env)
    ELSE [m |-> Trail([b.m EXCEPT !.stats.malformedBlocks = @ + 1,
                                  !.blocks = Append(@, blk @@ [length |-> 0])],
                      Len(data) - pos),
          thrown |-> FALSE]

BlockLoop(m, data, pos, env) ==
    IF Len(data) - pos >= MIN_BLOCK_SIZE
    THEN BlockStep(data, pos, env, [offset |-> pos, category |-> data[pos + 1]],
                   ProcessDataBlock(m, Drop(data, pos), env))
    ELSE [m |-> Trail(m, Len(data) - pos), thrown |-> FALSE]

\* a handlePacket that counts a packet only when it can hold a block
HandlePacketCallCountingBlocks(m, data, env) ==
    IF Len(data) = 0 THEN [m |-> m, thrown |-> FALSE]
    ELSE IF Len(data) < MIN_BLOCK_SIZE
    THEN [m |-> Trail(m, Len(data)), thrown |-> FALSE]
    ELSE BlockLoop([m EXCEPT !.stats.totalPackets = @ + 1], data, 0, env)

\* AsterixPacketHandler::handlePacket(data, size)
HandlePacketCall(m, data, env) ==
    IF Len(data) = 0 THEN [m |-> m, thrown |-> FALSE]
    ELSE BlockLoop([m EXCEPT !.stats.totalPackets = @ + 1], data, 0, env)

-----------------------------------------------------------------------------
(* Input buffers *)

\* CAT 001 blocks
B1_example   == <<1, 0, 15, 248, 1, 2, 32, 0, 128, 64, 0, 0, 0, 0, 0>>
B1_minimal   == <<1, 0, 7, 192, 1, 2, 32>>
B1_lsp       == <<1, 0, 9, 194, 3, 4, 16, 86, 120>>
B1_two       == <<1, 0, 11, 192, 1, 2, 32, 192, 3, 4, 16>>
B1_reserved1 == <<1, 0, 7, 192, 1, 2, 128>>
B1_reserved2 == <<1, 0, 8, 192, 3, 4, 33, 128>>
B1_third     == <<1, 0, 9, 192, 1, 2, 33, 1, 0>>
B1_readme    == <<1, 0, 9, 128, 1, 2, 0, 0, 0>>
B1_frn9      == <<1, 0, 9, 193, 64, 1, 2, 32, 0>>
B1_short     == <<1, 0, 6, 192, 1, 2>>
B1_fspec40   == <<1, 0, 5, 64, 32>>
B1_fspec00   == <<1, 0, 5, 0, 0>>
B1_ext       == <<1, 0, 11, 193, 128, 1, 2, 33, 0, 9, 9>>
\* CAT 002 blocks
B2_north     == <<2, 0, 10, 208, 1, 2, 1, 18, 52, 86>>
B2_late      == <<2, 0, 10, 208, 3, 4, 1, 168, 191, 240>>
B2_short     == <<2, 0, 6, 208, 1, 2>>
\* a block of a category without handler
B_unhandled  == <<42, 0, 5, 128, 0>>
\* rejected headers: declared length below HEADER_SIZE, and beyond the buffer
B_len2       == <<1, 0, 2, 128, 0, 0>>
B_len255     == <<1, 0, 255, 192, 1, 2, 32>>

\* bytes that form no block: shorter than MIN_BLOCK_SIZE when they end a buffer
T_one        == <<0>>
T_four       == <<1, 0, 7, 192>>

Fragments ==
    {B1_example, B1_minimal, B1_lsp, B1_two, B1_reserved1, B1_reserved2, B1_third,
     B1_readme, B1_frn9, B1_short, B2_north, B2_late, B2_short, B_unhandled,
     B_len2, B_len255, T_one, T_four}

\* the fragments of the record-level cases: FSPECs of one and two bytes, with
\* and without the mandatory bits, items with and without handler
ItemFragments ==
    {B1_example, B1_two, B1_ext, B1_fspec00, B1_fspec40, B1_reserved1, B1_frn9,
     B1_readme, B1_short, B2_north, B2_short, B_unhandled, B_len2}

\* one block of each category, for the dispatcher whose handlers are replaced
CategoryFragments == {B1_minimal, B2_north}

\* fragments that between them add to every counter, none of which throws
CounterFragments ==
    {B1_minimal, B1_short, B1_fspec00, B1_frn9, B_unhandled, B_len2, T_one}

\* a CAT 001 block whose record carries I001/141 with a low byte >= 0x80
B1_lsp80 == <<1, 0, 9, 194, 3, 4, 16, 86, 128>>

\* CAT 002 records that write the time of day of a source and CAT 001 records
\* of the same and of another source, with and without I001/141
TimeFragments == {B2_late, B2_north, B1_lsp, B1_lsp80, B1_minimal}

\* a CAT 001 block that ends inside the FSPEC of its record
B1_fspecrun == <<1, 0, 5, 193, 129>>

\* blocks that end inside a header, an FSPEC or an item, and blocks that do not
BoundsFragments ==
    {B1_example, B1_ext, B1_two, B1_short, B1_fspecrun, B1_fspec40, B1_reserved1,
     B2_short, B_len2, B_len255, T_four}

\* CAT 001 blocks whose record has an FSPEC of ten bytes (its last byte empty,
\* and with the bit of FRN 70), and one whose first ten FSPEC bytes all have FX
B1_fspec10 == <<1, 0, 16, 193, 1, 1, 1, 1, 1, 1, 1, 1, 0, 1, 2, 32>>
B1_frn70   == <<1, 0, 16, 193, 1, 1, 1, 1, 1, 1, 1, 1, 2, 1, 2, 32>>
B1_fspec11 == <<1, 0, 17, 193, 1, 1, 1, 1, 1, 1, 1, 1, 1, 0, 1, 2, 32>>

\* FSPECs of one, two, ten and eleven bytes, and one that the block cuts
FspecFragments ==
    {B1_minimal, B1_ext, B1_fspecrun, B1_fspec10, B1_frn70, B1_fspec11}


\* a CAT 002 block whose I002/030 holds FF FF FF, more than a day
B2_overflow == <<2, 0, 10, 208, 3, 4, 1, 255, 255, 255>>

\* CAT 002 records that write a time of day within and beyond the day, CAT 001
\* records of the same source with and without I001/141
DayFragments == {B2_overflow, B2_late, B1_lsp, B1_two}


\* the fragments the behaviour draws its buffers from
TrafficFragments ==
    CASE traffic = "blocks" -> Fragments
      [] traffic = "items" -> ItemFragments
      [] traffic = "categories" -> CategoryFragments
      [] traffic = "counters" -> CounterFragments
      [] traffic = "times" -> TimeFragments
      [] traffic = "bounds" -> BoundsFragments
      [] traffic = "fspecs" -> FspecFragments
      [] traffic = "days" -> DayFragments
      [] OTHER -> {}

\* the buffers made of exactly n fragments
RECURSIVE FragmentSeqs(_)
FragmentSeqs(n) ==
    IF n = 0 THEN {<<>>}
    ELSE {p \o b : p \in FragmentSeqs(n - 1), b \in TrafficFragments}

\* the buffers of at most n fragments, each with its number of fragments
Packets(n) == UNION {{[data |-> d, nfrag |-> k] : d \in FragmentSeqs(k)} : k \in 0..n}

\* values calculateCurrentTod can return
ClockValues == {1193046, maxTOD - 16}

-----------------------------------------------------------------------------
(* The dispatcher fed from one thread *)

ZeroStats ==
    [totalPackets |-> 0, trailingBytesCount |-> 0, unhandledCategories |-> 0,
     malformedBlocks |-> 0, malformedRecords |-> 0, recordParseErrors |-> 0,
     protocolViolations |-> 0, unhandledItems |-> 0]

NoCall ==
    [seq |-> 0, fed |-> 0, data |-> <<>>, returned |-> FALSE, thrown |-> FALSE,
     terminated |-> FALSE, out |-> <<>>, writes |-> <<>>, log |-> <<>>, blocks |-> <<>>, recs |-> <<>>,
     preStats |-> ZeroStats, preSources |-> <<>>]

IdleThreads == [t \in 1..3 |-> [pc |-> "idle", cat |-> 0, si |-> <<0, 0>>, it |-> 0,
                                  l |-> "", n |-> 0]]
FreeMutex == [c \in {1, 2} |-> [readers |-> {}, writer |-> 0]]
NoAccess == [t \in {1, 2} |-> "none"]
NoTime == [t |-> 0, ref |-> 0, done |-> FALSE, T |-> 0]
\* a freshly constructed category handler: no addHandler call made yet
Unregistered == [table |-> EmptyTable, regs |-> <<>>, again |-> 0, once |-> EmptyTable]
\* no category handler is under registration: the handlers are set up
NoRegistration == [table |-> <<>>, regs |-> <<>>, again |-> 0, once |-> <<>>]

\* a category handler object: which object it is and the class it is of
HandlerObject(id, class) == [id |-> id, class |-> class]
\* an empty unique_ptr
NullHandlerObject == HandlerObject(0, "nullptr")

\* a dispatcher on which registerCategoryHandler was never called; calls are
\* the registerCategoryHandler calls made so far, each <<category, handler>>
NoPool == [pool |-> <<>>, slot |-> <<>>, calls |-> <<>>]

\* registerCategoryHandler that leaves the replaced owner in the pool
RegisterKeepingOwner(d, category, handler) ==
    IF handler.id = 0 THEN d
    ELSE [d EXCEPT !.pool = Append(d.pool, handler),
                   !.slot = [c \in DOMAIN d.slot \cup {category} |->
                               IF c = category THEN handler ELSE d.slot[c]]]

\* AsterixPacketHandler::registerCategoryHandler(category, handler) on the
\* lookup table d.slot (its non-null slots) and the ownership pool d.pool
RegisterCategoryHandler(d, category, handler) ==
    IF handler.id = 0 THEN d
    ELSE LET NotTarget(ptr) == ptr.id # d.slot[category].id
             kept == IF category \in DOMAIN d.slot
                     THEN SelectSeq(d.pool, NotTarget)
                     ELSE d.pool
         IN  [d EXCEPT !.pool = Append(kept, handler),
                       !.slot = [c \in DOMAIN d.slot \cup {category} |->
                                   IF c = category THEN handler ELSE d.slot[c]]]

\* the classes of the handlers the lookup table points to
SlotClasses(d) == [c \in DOMAIN d.slot |-> d.slot[c].class]

\* the dispatcher of the examples: a handler registered for each category
Registered ==
    RegisterCategoryHandler(
        RegisterCategoryHandler(NoPool, 1, HandlerObject(1, "Asterix1Handler")),
        2, HandlerObject(2, "Asterix2Handler"))

\* no data item handler applied
NoItem == [kind |-> "none", k |-> 0, i |-> 0, data |-> <<>>, done |-> FALSE,
           result |-> <<>>]

\* as the examples set the dispatcher up: the category handlers registered,
\* a listener added to each
Init ==
    /\ stats = ZeroStats
    /\ sources = <<>>
    /\ listeners = [c \in {1, 2} |-> IF c = 1 THEN <<"a">> ELSE <<"b">>]
    /\ alive = {"a", "b"}
    /\ categoryHandlers = [c \in {1, 2} |-> IF c = 1 THEN "Asterix1Handler"
                                           ELSE "Asterix2Handler"]
    /\ charSigned \in BOOLEAN
    /\ last = NoCall
    /\ tin = NoTime
    /\ th = IdleThreads
    /\ mutex = FreeMutex
    /\ store = NoAccess
    /\ registering = NoRegistration
    /\ traffic = "blocks"
    /\ categoryPool = Registered
    /\ item = NoItem

\* the state after a call of handlePacket that gave r, and the call's trace
Called(entry, pkt, r) ==
    /\ stats' = r.m.stats
    /\ sources' = r.m.sources
    /\ listeners' = r.m.listeners
    /\ last' = [seq |-> last.seq + 1, fed |-> last.fed + pkt.nfrag, data |-> pkt.data,
                returned |-> ~r.thrown, thrown |-> r.thrown,
                terminated |-> (r.thrown /\ entry = "onPacket"),
                out |-> r.m.out, writes |-> r.m.writes, log |-> r.m.log,
                blocks |-> r.m.blocks, recs |-> r.m.recs,
                preStats |-> stats, preSources |-> sources]

\* one call of handlePacket(data, size) on the state
Call(entry, pkt, now) ==
    Called(entry, pkt,
           HandlePacketCall([stats |-> stats, sources |-> sources, listeners |-> listeners,
                             out |-> <<>>, writes |-> <<>>, log |-> <<>>, blocks |-> <<>>,
                             recs |-> <<>>],
                            pkt.data,
                            [now |-> now, alive |-> alive, charSigned |-> charSigned,
                             categoryHandlers |-> categoryHandlers]))

\* the application calls handlePacket(data, size)
HandlePacket ==
    /\ last.seq < MaxPackets
    /\ ~last.terminated
    /\ \E pkt \in Packets(MaxFragments - last.fed), now \in ClockValues :
          Call("handlePacket", pkt, now)
    /\ UNCHANGED <<alive, categoryHandlers, charSigned, tin, th, mutex, store, registering, traffic, categoryPool, item>>

\* the reactor calls AsterixPacketHandler::onPacket (noexcept): a truncated
\* datagram is dropped, an exception leaving handlePacket ends the process
OnPacket ==
    /\ last.seq < MaxPackets
    /\ ~last.terminated
    /\ \E pkt \in Packets(MaxFragments - last.fed), now \in ClockValues,
          truncated \in BOOLEAN :
          IF truncated
          THEN /\ last' = [NoCall EXCEPT !.seq = last.seq + 1, !.returned = TRUE,
                                         !.fed = last.fed + pkt.nfrag,
                                         !.preStats = stats, !.preSources = sources]
               /\ UNCHANGED <<stats, sources, listeners>>
          ELSE Call("onPacket", pkt, now)
    /\ UNCHANGED <<alive, categoryHandlers, charSigned, tin, th, mutex, store, registering, traffic, categoryPool, item>>

Next == HandlePacket \/ OnPacket

Spec == Init /\ [][Next]_vars

\* the same dispatcher fed the fragments of the record-level cases
InitItems ==
    /\ stats = ZeroStats
    /\ sources = <<>>
    /\ listeners = [c \in {1, 2} |-> IF c = 1 THEN <<"a">> ELSE <<"b">>]
    /\ alive = {"a", "b"}
    /\ categoryHandlers = [c \in {1, 2} |-> IF c = 1 THEN "Asterix1Handler"
                                           ELSE "Asterix2Handler"]
    /\ charSigned \in BOOLEAN
    /\ last = NoCall
    /\ tin = NoTime
    /\ th = IdleThreads
    /\ mutex = FreeMutex
    /\ store = NoAccess
    /\ registering = NoRegistration
    /\ traffic = "items"
    /\ categoryPool = Registered
    /\ item = NoItem

SpecItems == InitItems /\ [][Next]_vars

-----------------------------------------------------------------------------
(* Properties of one handlePacket call                                      *)

RECURSIVE SumLengths(_)
SumLengths(bs) == IF bs = <<>> THEN 0 ELSE bs[1].length + SumLengths(Tail(bs))

\* what the last call added to a counter
Delta(counter) == stats[counter] - last.preStats[counter]

\* the last call met a block whose header processDataBlock rejected
HeaderRejected ==
    /\ last.blocks # <<>>
    /\ last.blocks[Len(last.blocks)].length = 0

\* C1: after handlePacket returns, the declared lengths of the blocks it
\* advanced over plus what the call added to trailingBytesCount make up the
\* length of the buffer
C1_BufferAccounted ==
    last.returned =>
        SumLengths(last.blocks) + Delta("trailingBytesCount") = Len(last.data)

\* a call that advanced over a block and then met a rejected header
C1_Witness ==
    /\ last.returned
    /\ HeaderRejected
    /\ SumLengths(last.blocks) > 0
    /\ Delta("trailingBytesCount") > 0

\* a call on a buffer shorter than MIN_BLOCK_SIZE is accounted too
C1_ShortBuffer ==
    (last.returned /\ Len(last.data) \in 1..(MIN_BLOCK_SIZE - 1)) =>
        (last.blocks = <<>> /\ Delta("trailingBytesCount") = Len(last.data))

\* C2 as stated: a rejected block header makes the call add 1 to
\* malformedBlocks and leave trailingBytesCount as it was
C2_TrailingUnchanged ==
    (last.returned /\ HeaderRejected) =>
        (Delta("malformedBlocks") = 1 /\ Delta("trailingBytesCount") = 0)

\* C2 amended: a rejected block header makes the call add 1 to malformedBlocks,
\* hand no record of the rejected block or of anything after it to a category
\* handler, and add the bytes from the rejected header to the end of the
\* buffer to trailingBytesCount
C2_RemainderCounted ==
    (last.returned /\ HeaderRejected) =>
        LET rej == last.blocks[Len(last.blocks)]
        IN  /\ Delta("malformedBlocks") = 1
            /\ \A i \in 1..(Len(last.blocks) - 1) : last.blocks[i].length > 0
            /\ \A i \in 1..Len(last.log) : last.log[i].block < Len(last.blocks)
            /\ SumLengths(last.blocks) = rej.offset
            /\ Delta("trailingBytesCount") = Len(last.data) - rej.offset

\* the buffer 01 00 02 80 00 00 of the scenario: its six bytes are counted
C2_Witness ==
    /\ last.returned
    /\ last.data = B_len2
    /\ HeaderRejected
    /\ Delta("malformedBlocks") = 1
    /\ Delta("trailingBytesCount") = 6

\* C3: no call of handlePacket ends with an exception leaving it
C3_NeverThrows == ~last.thrown

\* C4: a record whose I001/020 item is rejected is the only thing discarded:
\* the call returns, protocolViolations has grown by 1 for it, the record made
\* no callback and no store write, and every block of the buffer was processed
C4_OnlyRecordDiscarded ==
    \A i \in 1..Len(last.log) :
        last.log[i].thrown =>
            /\ last.returned
            /\ Delta("protocolViolations") >= 1
            /\ last.log[i].called = 0
            /\ last.log[i].wrote = 0
            /\ SumLengths(last.blocks) + Delta("trailingBytesCount") = Len(last.data)

\* C10: a record handed to a category handler writes the source-state store
\* (once) if and only if the handler's FSPEC walk returned more than 0
C10_StoreWrittenIffConsumed ==
    \A i \in 1..Len(last.log) :
        /\ last.log[i].wrote \in {0, 1}
        /\ (last.log[i].wrote = 1) <=> (last.log[i].consumed > 0)

\* one call in which a CAT 002 record wrote the store and a CAT 001 record
\* that failed decoding did not
C10_Witness ==
    \E i, j \in 1..Len(last.log) :
        /\ last.log[i].handler = "Asterix2Handler"
        /\ last.log[i].consumed > 0 /\ last.log[i].wrote = 1
        /\ last.log[j].handler = "Asterix1Handler"
        /\ last.log[j].consumed = 0 /\ last.log[j].wrote = 0
        /\ last.writes = <<<<last.log[i].sourceIdentifier, sources[last.log[i].sourceIdentifier]>>>>

\* C11: every report a listener receives carries the (SAC, SIC) held by the
\* I001/010 or I002/010 item of the record that produced it (the first two
\* bytes of that record's payload), and every callback of the call belongs to
\* one record of the call
C11_ReportCarriesRecordSource ==
    /\ \A k \in 1..Len(last.log) :
          \A j \in 1..last.log[k].called :
              last.out[last.log[k].outFrom + j].report.sourceIdentifier
                  = <<last.log[k].payload[1], last.log[k].payload[2]>>
    /\ \A i \in 1..Len(last.out) :
          \E k \in 1..Len(last.log) :
              /\ last.log[k].outFrom < i
              /\ i <= last.log[k].outFrom + last.log[k].called

\* one call delivered the reports of two records of different sources
C11_Witness ==
    /\ Len(last.out) = 2
    /\ last.out[1].report.sourceIdentifier = <<1, 2>>
    /\ last.out[2].report.sourceIdentifier = <<3, 4>>
    /\ Len(last.log) = 2

\* the FRN table of a registered category handler
TableOf(handler) == IF handler = "Asterix1Handler" THEN Cat1Table ELSE Cat2Table

\* whether the FSPEC has the bit of the FRN set (bits 7..1 of each byte, the
\* first byte holding FRN 1..7)
FspecBit(fspec, frn) ==
    BitAnd(fspec[((frn - 1) \div 7) + 1], Shl1(7 - ((frn - 1) % 7))) # 0

\* the number of item bits set in the FSPEC, from FRN frn on
RECURSIVE ItemBits(_, _)
ItemBits(fspec, frn) ==
    IF frn > 7 * Len(fspec) THEN 0
    ELSE (IF FspecBit(fspec, frn) THEN 1 ELSE 0) + ItemBits(fspec, frn + 1)

\* the sum of the sizes the field handlers report for the items whose FSPEC
\* bits are set, from FRN frn on, each asked on what the ones before it left
RECURSIVE ItemSizeSum(_, _, _, _)
ItemSizeSum(t, fspec, data, frn) ==
    IF frn > 7 * Len(fspec) THEN 0
    ELSE IF FspecBit(fspec, frn)
    THEN GetSize(t.itemLookup[frn], data)
           + ItemSizeSum(t, fspec, Drop(data, GetSize(t.itemLookup[frn], data)), frn + 1)
    ELSE ItemSizeSum(t, fspec, data, frn + 1)

\* C12: for every record dispatchRecord accepts (returns more than 0 for), the
\* value returned is the length of the FSPEC plus the sum of the sizes
\* reported by the field handlers of all items whose FSPEC bits are set
C12_ConsumedIsFspecPlusItems ==
    \A i \in 1..Len(last.recs) :
        last.recs[i].consumed > 0 =>
            /\ last.recs[i].log > 0
            /\ last.recs[i].consumed
                 = Len(last.log[last.recs[i].log].fspec)
                   + ItemSizeSum(TableOf(last.log[last.recs[i].log].handler),
                                 last.log[last.recs[i].log].fspec,
                                 last.log[last.recs[i].log].payload, 1)

\* an accepted record with a two-byte FSPEC and an extended I001/020 item
\* (2 + 2 + 2 + 2 bytes), after an accepted record of 1 + 11 bytes
C12_Witness ==
    /\ Len(last.recs) = 2
    /\ last.recs[1].consumed = 12 /\ Len(last.log[last.recs[1].log].fspec) = 1
    /\ last.recs[2].consumed = 8 /\ Len(last.log[last.recs[2].log].fspec) = 2

\* whether an error ended the handler's walk of the record
WalkFailed(e) == e.thrown \/ e.counter # "none"

\* C13 as stated: the number of decode invocations made for a record is the
\* number of item bits set in its FSPEC when the walk succeeds, and it is
\* strictly smaller exactly when an error ended the walk
C13_DecodeCountIsBitCount ==
    \A k \in 1..Len(last.log) :
        /\ ~WalkFailed(last.log[k]) =>
               last.log[k].ndecoded = ItemBits(last.log[k].fspec, 1)
        /\ (last.log[k].ndecoded < ItemBits(last.log[k].fspec, 1))
               <=> WalkFailed(last.log[k])

\* C13 amended: the number of decode invocations never exceeds the number of
\* item bits set; it is that number when the walk succeeds; it is strictly
\* smaller when a missing handler or a size error ends the walk; it is 0 when
\* the mandatory check rejects the record (also for an FSPEC with no item
\* bit); a decode that rejects its item is counted among the invocations
C13_DecodeCountBounded ==
    \A k \in 1..Len(last.log) :
        /\ last.log[k].ndecoded <= ItemBits(last.log[k].fspec, 1)
        /\ ~WalkFailed(last.log[k]) =>
               last.log[k].ndecoded = ItemBits(last.log[k].fspec, 1)
        /\ last.log[k].counter \in {"unhandledItems", "malformedRecords"} =>
               last.log[k].ndecoded < ItemBits(last.log[k].fspec, 1)
        /\ last.log[k].counter = "protocolViolations" => last.log[k].ndecoded = 0
        /\ last.log[k].thrown => last.log[k].ndecoded >= 1

\* a record with no item bit in its FSPEC, rejected with no decode made, and
\* after it a record whose three items were all decoded
C13_Witness ==
    /\ Len(last.log) = 2
    /\ WalkFailed(last.log[1])
    /\ ItemBits(last.log[1].fspec, 1) = 0 /\ last.log[1].ndecoded = 0
    /\ ~WalkFailed(last.log[2])
    /\ ItemBits(last.log[2].fspec, 1) = 3 /\ last.log[2].ndecoded = 3

\* a record whose last item's decode was invoked and rejected the item
C13_RejectedLastItem ==
    \E k \in 1..Len(last.log) :
        /\ last.log[k].thrown
        /\ last.log[k].ndecoded = ItemBits(last.log[k].fspec, 1)

\* Asterix1Report::SSRPSR_T::SOLE_SECONDARY_DETECTION
SOLE_SECONDARY_DETECTION == 2

\* C15: handlePacket on 01 00 0F F8 01 02 20 00 80 40 00 00 00 00 00, the
\* counters being 0 before, returns after one callback whose report has
\* SAC 1, SIC 2, SSR/PSR SOLE_SECONDARY_DETECTION, Mode-3/A present with code
\* 0 and no flag set, Mode-C present; the 15 bytes are advanced over,
\* totalPackets is 1 and every other counter is 0
C15_ExampleBlock ==
    (last.data = B1_example /\ last.preStats = ZeroStats) =>
        /\ last.returned
        /\ Len(last.out) = 1
        /\ last.out[1].report.cat = 1
        /\ last.out[1].report.sourceIdentifier = <<1, 2>>
        /\ last.out[1].report.ssrpsr = SOLE_SECONDARY_DETECTION
        /\ last.out[1].report.mode3A =
              [present |-> TRUE, code |-> 0, validated |-> FALSE,
               garbled |-> FALSE, local |-> FALSE]
        /\ last.out[1].report.ssrHeight.present
        /\ SumLengths(last.blocks) = 15
        /\ Len(last.recs) = 1 /\ last.recs[1].consumed = 12
        /\ stats = [ZeroStats EXCEPT !.totalPackets = 1]

\* the call on that buffer was made on a fresh dispatcher, and its report
\* reached the listener of CAT 001
C15_Witness ==
    /\ last.data = B1_example
    /\ last.preStats = ZeroStats
    /\ Len(last.out) = 1
    /\ last.out[1].listener = "a"
    /\ stats.totalPackets = 1

\* block i of the last call had a valid header and a category without handler
Unhandled(i) ==
    /\ last.blocks[i].length > 0
    /\ last.blocks[i].category \notin DOMAIN categoryHandlers

\* the counters of errors other than unhandledCategories and trailing bytes
OtherErrorCounters ==
    {"malformedBlocks", "malformedRecords", "recordParseErrors",
     "protocolViolations", "unhandledItems"}

\* C16: each block with a valid header and a category without handler adds 1
\* to unhandledCategories, nothing of it is dispatched, and the call advances
\* by its declared length; a call meeting only such blocks calls no listener
\* and changes no other error counter; 2A 00 05 80 00 on a fresh dispatcher
\* leaves unhandledCategories = 1, totalPackets = 1 and no trailing bytes
C16_UnhandledCategorySkipped ==
    /\ Delta("unhandledCategories")
          = Cardinality({i \in 1..Len(last.blocks) : Unhandled(i)})
    /\ \A i \in 1..Len(last.blocks) :
          Unhandled(i) =>
             /\ \A k \in 1..Len(last.recs) : last.recs[k].block # i
             /\ \A k \in 1..Len(last.log) : last.log[k].block # i
             /\ last.blocks[i].length
                  = last.data[last.blocks[i].offset + 2] * 256
                    + last.data[last.blocks[i].offset + 3]
             /\ i < Len(last.blocks) =>
                  last.blocks[i + 1].offset
                     = last.blocks[i].offset + last.blocks[i].length
    /\ (last.blocks # <<>> /\ \A i \in 1..Len(last.blocks) : Unhandled(i)) =>
          /\ last.returned
          /\ last.out = <<>>
          /\ \A c \in OtherErrorCounters : Delta(c) = 0
    /\ (last.data = B_unhandled /\ last.preStats = ZeroStats) =>
          stats = [ZeroStats EXCEPT !.totalPackets = 1, !.unhandledCategories = 1]

\* a call that skipped a block of category 0x2A and then delivered the report
\* of the CAT 002 block after it
C16_Witness ==
    /\ last.data = B_unhandled \o B2_north
    /\ Delta("unhandledCategories") = 1
    /\ Len(last.blocks) = 2 /\ last.blocks[2].offset = 5
    /\ Len(last.out) = 1

\* the FSPEC lacks a bit of the mandatory mask of the table, or is shorter than
\* mandatoryFspecSize
NotConformant(t, fspec) ==
    \/ Len(fspec) < t.mandatoryFspecSize
    \/ \E frn \in 1..(7 * t.mandatoryFspecSize) :
          /\ t.itemLookup[frn] # NoHandler
          /\ t.itemLookup[frn].mandatory
          /\ ~FspecBit(fspec, frn)

UnregisteredBit(t, fspec) ==
    \E frn \in 1..(7 * Len(fspec)) :
        FspecBit(fspec, frn) /\ t.itemLookup[frn] = NoHandler

C19_NoResynchronisation ==
    \A i \in 1..Len(last.blocks) :
        last.blocks[i].length = 0 =>
            /\ i = Len(last.blocks)
            /\ \A k \in 1..Len(last.recs) : last.recs[k].block < i
            /\ \A k \in 1..Len(last.log) :
                  /\ last.log[k].block < i
                  /\ last.log[k].consumed > 0 => last.log[k].called = 1
            /\ \A j \in 1..Len(last.out) :
                  \E k \in 1..Len(last.log) :
                      /\ last.log[k].block < i
                      /\ last.log[k].outFrom < j
                      /\ j <= last.log[k].outFrom + last.log[k].called

\* a rejected header followed in the buffer by a well-formed CAT 002 block:
\* nothing was dispatched and no listener called
C19_Witness ==
    /\ last.returned
    /\ last.data = B_len2 \o B2_north
    /\ Len(last.blocks) = 1 /\ last.blocks[1].length = 0
    /\ last.recs = <<>>
    /\ last.out = <<>>

\* a block whose report was delivered, followed by a rejected header
C19_EarlierDelivered ==
    /\ last.returned
    /\ last.data = B2_north \o B_len2
    /\ Len(last.blocks) = 2 /\ last.blocks[2].length = 0
    /\ Len(last.out) = 1

\* dispatchRecord call k of the last call returned 0
ParseError(k) == last.recs[k].consumed = 0 /\ ~last.recs[k].thrown

\* C20: each dispatchRecord call that returns 0 adds 1 to recordParseErrors,
\* is the last one made in its block, leaves the block advancing the buffer
\* by its declared length, and every record accepted in a later block of the
\* buffer has its report delivered
C20_ParseErrorEndsBlockOnly ==
    /\ Delta("recordParseErrors")
          = Cardinality({k \in 1..Len(last.recs) : ParseError(k)})
    /\ \A k \in 1..Len(last.recs) :
          ParseError(k) =>
             /\ \A j \in (k + 1)..Len(last.recs) :
                   last.recs[j].block > last.recs[k].block
             /\ last.recs[k].block <= Len(last.blocks)
             /\ last.blocks[last.recs[k].block].length
                  = last.data[last.blocks[last.recs[k].block].offset + 2] * 256
                    + last.data[last.blocks[last.recs[k].block].offset + 3]
             /\ last.recs[k].block < Len(last.blocks) =>
                  last.blocks[last.recs[k].block + 1].offset
                     = last.blocks[last.recs[k].block].offset
                       + last.blocks[last.recs[k].block].length
             /\ \A e \in 1..Len(last.log) :
                   (last.log[e].block > last.recs[k].block /\ last.log[e].consumed > 0)
                      => last.log[e].called = 1

\* a block whose only dispatchRecord call returned 0 with bytes of the block
\* left over, and after it a CAT 002 block whose report was delivered
C20_Witness ==
    /\ last.returned
    /\ last.data = B1_readme \o B2_north
    /\ Len(last.recs) = 2
    /\ ParseError(1) /\ last.recs[1].block = 1 /\ last.recs[1].offset = HEADER_SIZE
    /\ last.blocks[2].offset = 9
    /\ last.recs[2].block = 2 /\ last.recs[2].consumed > 0
    /\ Len(last.out) = 1 /\ last.out[1].report.cat = 2
    /\ Delta("recordParseErrors") = 1

-----------------------------------------------------------------------------
(* expandTruncatedTime on sampled inputs                                    *)

\* the MSP windows sampled: both ends of the day and the window of 0x0012....
SampleWindows ==
    (0..EdgeWindows) \cup (((kTopMsp \div kWindow) - EdgeWindows)..(kTopMsp \div kWindow))
    \cup {18}

\* the offsets sampled in a window: around every multiple of 0x1000, and the
\* low halves 0x3456, 0x5678
SampleOffsets ==
    {k * 4096 + d : k \in 0..15, d \in {0, 1, 4095}} \cup {13398, 22136}

\* times of day in [0, maxTOD)
TimePoints ==
    {x \in {w * kWindow + o : w \in SampleWindows, o \in SampleOffsets} : x < maxTOD}

\* a source whose true time is tin.t was last seen at tin.ref
InitTime ==
    /\ stats = ZeroStats
    /\ sources = <<>>
    /\ listeners = [c \in {1, 2} |-> IF c = 1 THEN <<"a">> ELSE <<"b">>]
    /\ alive = {"a", "b"}
    /\ categoryHandlers = [c \in {1, 2} |-> IF c = 1 THEN "Asterix1Handler"
                                           ELSE "Asterix2Handler"]
    /\ charSigned = FALSE
    /\ last = NoCall
    /\ tin \in [t : TimePoints, ref : TimePoints, done : {FALSE}, T : {0}]
    /\ th = IdleThreads
    /\ mutex = FreeMutex
    /\ store = NoAccess
    /\ registering = NoRegistration
    /\ traffic = "none"
    /\ categoryPool = Registered
    /\ item = NoItem

\* the record carries the low 16 bits of tin.t; expandTruncatedTime expands them
Expand ==
    /\ ~tin.done
    /\ tin' = [tin EXCEPT !.done = TRUE,
                          !.T = expandTruncatedTime(tin.t % kWindow, tin.ref)]
    /\ UNCHANGED <<stats, sources, listeners, alive, categoryHandlers, charSigned,
                   last, th, mutex, store, registering, traffic, categoryPool, item>>

NextTime == Expand

SpecTime == InitTime /\ [][NextTime]_vars

\* the distance of two times of day on the circle [0, maxTOD)
CircularDistance(a, b) ==
    LET d == IF a > b THEN a - b ELSE b - a
    IN  IF d > maxTOD - d THEN maxTOD - d ELSE d

\* C7 as stated: a true time less than 0x8000 from the reference is recovered
\* from its low 16 bits
C7_RecoversWithin256s ==
    (tin.done /\ CircularDistance(tin.t, tin.ref) < 32768) => tin.T = tin.t

\* C7 amended: the true time is recovered when it is less than 0x6000 from the
\* reference, and when it is less than 0x8000 from a reference that is itself
\* at least 0x8000 away from midnight on both sides
C7_RecoversAwayFromMidnight ==
    tin.done =>
        /\ (CircularDistance(tin.t, tin.ref) < 24576) => tin.T = tin.t
        /\ (/\ CircularDistance(tin.t, tin.ref) < 32768
            /\ tin.ref >= 32768
            /\ tin.ref <= maxTOD - 32768) => tin.T = tin.t

\* the reference in the shortened top window, the true time past midnight
C7_Witness ==
    /\ tin.done
    /\ tin.ref >= kTopMsp
    /\ tin.t < kWindow
    /\ CircularDistance(tin.t, tin.ref) > 16384
    /\ CircularDistance(tin.t, tin.ref) < 24576
    /\ tin.T = tin.t

\* C8: the result is a time of day, has the low 16 bits handed in, and is at
\* most HALF_DAY from the reference
C8_ResultInRange ==
    tin.done =>
        /\ tin.T \in 0..(maxTOD - 1)
        /\ tin.T % 65536 = tin.t % 65536
        /\ CircularDistance(tin.T, tin.ref) <= maxTOD \div 2

\* the reference in the top window and low bits that lie beyond its end:
\* candidate A is no time of day
C8_Witness ==
    /\ tin.done
    /\ tin.ref >= kTopMsp
    /\ MspOf(tin.ref) + (tin.t % 65536) >= maxTOD
    /\ tin.T < maxTOD

\* a candidate's distance as stated: maxTOD for a candidate that is no time of day
StatedDistance(c, ref) == IF c >= maxTOD THEN maxTOD ELSE CircularDistance(c, ref)

\* the candidate chosen as stated: least distance, A before B before C
StatedChoice(lsp, ref) ==
    LET A  == MspOf(ref) + lsp
        B  == IF MspOf(ref) = 0 THEN kTopMsp + lsp ELSE A - 65536
        C  == IF MspOf(ref) = kTopMsp THEN lsp ELSE A + 65536
        dA == StatedDistance(A, ref)
        dB == StatedDistance(B, ref)
        dC == StatedDistance(C, ref)
    IN  IF dA <= dB /\ dA <= dC THEN A
        ELSE IF dB <= dC THEN B
        ELSE C

\* C9: the result is the candidate of least distance to the reference, ties
\* going to A and then to B; 0x5678 against 0x00123456 gives 0x00125678
C9_LeastDistanceCandidate ==
    tin.done =>
        /\ tin.T = StatedChoice(tin.t % 65536, tin.ref)
        /\ (tin.ref = 1193046 /\ tin.t % 65536 = 22136) => tin.T = 1201784

\* the scenario's inputs, expanded
C9_Witness ==
    /\ tin.done
    /\ tin.ref = 1193046
    /\ tin.t % 65536 = 22136
    /\ tin.T = 1201784

\* two candidates at the same distance, the earlier one taken
C9_TieWitness ==
    /\ tin.done
    /\ StatedDistance(MspOf(tin.ref) + (tin.t % 65536), tin.ref) = 32768
    /\ tin.T = MspOf(tin.ref) + (tin.t % 65536)

-----------------------------------------------------------------------------
(* Two producer threads inside processDataRecord, and the application       *)
(* thread that adds listeners and lets go of them.                          *)
(* th[t].pc is the thread's position; a store access and an erase take a    *)
(* begin and an end step, so that what overlaps them shows in a state.      *)

Producers == {1, 2}
Application == 3
SourcePool == {<<1, 2>>, <<3, 4>>}

InitConc ==
    /\ stats = ZeroStats
    /\ sources = <<>>
    /\ listeners = [c \in {1, 2} |-> IF c = 1 THEN <<"a">> ELSE <<"b">>]
    /\ alive = {"a", "b", "c"}
    /\ categoryHandlers = [c \in {1, 2} |-> IF c = 1 THEN "Asterix1Handler"
                                           ELSE "Asterix2Handler"]
    /\ charSigned = FALSE
    /\ last = NoCall
    /\ tin = NoTime
    /\ th = IdleThreads
    /\ mutex = FreeMutex
    /\ store = NoAccess
    /\ registering = NoRegistration
    /\ traffic = "none"
    /\ categoryPool = Registered
    /\ item = NoItem

Frame == <<stats, alive, categoryHandlers, charSigned, last, tin, registering, traffic, categoryPool, item>>

\* the sequence without its i-th element (vector::erase)
RemoveAt(q, i) == [j \in 1..(Len(q) - 1) |-> IF j < i THEN q[j] ELSE q[j + 1]]

\* _processDataRecordInternal returned consumed > 0 for a record of source si
BeginRecord(t) ==
    /\ th[t].pc = "idle"
    /\ th[t].n < MaxThreadRecords
    /\ \E c \in {1, 2}, si \in SourcePool :
          th' = [th EXCEPT ![t].pc = IF c = 1 THEN "get" ELSE "update",
                           ![t].cat = c, ![t].si = si, ![t].it = 0]
    /\ UNCHANGED <<sources, listeners, mutex, store>>
    /\ UNCHANGED Frame

\* CAT 001: sourceStateManager->getReferenceTime(si) enters sources.find
GetBegin(t) ==
    /\ th[t].pc = "get"
    /\ store' = [store EXCEPT ![t] = "read"]
    /\ th' = [th EXCEPT ![t].pc = "getting"]
    /\ UNCHANGED <<sources, listeners, mutex>>
    /\ UNCHANGED Frame

\* getReferenceTime returns
GetEnd(t) ==
    /\ th[t].pc = "getting"
    /\ store' = [store EXCEPT ![t] = "none"]
    /\ th' = [th EXCEPT ![t].pc = "update"]
    /\ UNCHANGED <<sources, listeners, mutex>>
    /\ UNCHANGED Frame

\* sourceStateManager->updateSourceTime(si, TOD) enters insert_or_assign
UpdateBegin(t) ==
    /\ th[t].pc = "update"
    /\ store' = [store EXCEPT ![t] = "write"]
    /\ th' = [th EXCEPT ![t].pc = "updating"]
    /\ UNCHANGED <<sources, listeners, mutex>>
    /\ UNCHANGED Frame

\* insert_or_assign returns; when another access overlapped it the map may
\* or may not hold the value
UpdateEnd(t) ==
    /\ th[t].pc = "updating"
    /\ \/ sources' = UpdateSourceTime(sources, th[t].si, t)
       \/ /\ \E o \in Producers \ {t} : store[o] # "none"
          /\ sources' = sources
    /\ store' = [store EXCEPT ![t] = "none"]
    /\ th' = [th EXCEPT ![t].pc = "lock", ![t].si = <<0, 0>>]
    /\ UNCHANGED <<listeners, mutex>>
    /\ UNCHANGED Frame

\* std::shared_lock lock(listenerMutex)
LockShared(t) ==
    /\ th[t].pc = "lock"
    /\ mutex[th[t].cat].writer = 0
    /\ mutex' = [mutex EXCEPT ![th[t].cat].readers = @ \cup {t}]
    /\ th' = [th EXCEPT ![t].pc = "iterate", ![t].it = 1]
    /\ UNCHANGED <<sources, listeners, store>>
    /\ UNCHANGED Frame

\* the weak_ptr locks: onReportDecoded(report), ++it
Deliver(t) ==
    /\ th[t].pc = "iterate"
    /\ th[t].it <= Len(listeners[th[t].cat])
    /\ listeners[th[t].cat][th[t].it] \in alive
    /\ th' = [th EXCEPT ![t].it = @ + 1]
    /\ UNCHANGED <<sources, listeners, mutex, store>>
    /\ UNCHANGED Frame

\* CAT 002: an expired entry is passed over
SkipExpired(t) ==
    /\ th[t].pc = "iterate"
    /\ th[t].cat = 2
    /\ th[t].it <= Len(listeners[2])
    /\ listeners[2][th[t].it] \notin alive
    /\ th' = [th EXCEPT ![t].it = @ + 1]
    /\ UNCHANGED <<sources, listeners, mutex, store>>
    /\ UNCHANGED Frame

\* CAT 001: an expired entry: it = listeners.erase(it) begins, the shared
\* lock still held
EraseBegin(t) ==
    /\ th[t].pc = "iterate"
    /\ th[t].cat = 1
    /\ th[t].it <= Len(listeners[1])
    /\ listeners[1][th[t].it] \notin alive
    /\ th' = [th EXCEPT ![t].pc = "erasing"]
    /\ UNCHANGED <<sources, listeners, mutex, store>>
    /\ UNCHANGED Frame

\* listeners.erase(it) returns
EraseEnd(t) ==
    /\ th[t].pc = "erasing"
    /\ listeners' = [listeners EXCEPT ![1] = IF th[t].it <= Len(@)
                                             THEN RemoveAt(@, th[t].it) ELSE @]
    /\ th' = [th EXCEPT ![t].pc = "iterate"]
    /\ UNCHANGED <<sources, mutex, store>>
    /\ UNCHANGED Frame

\* the end of the registry: the shared lock is released; CAT 001 returns,
\* CAT 002 goes on to its cleanup
UnlockShared(t) ==
    /\ th[t].pc = "iterate"
    /\ th[t].it > Len(listeners[th[t].cat])
    /\ mutex' = [mutex EXCEPT ![th[t].cat].readers = @ \ {t}]
    /\ th' = [th EXCEPT ![t] = IF th[t].cat = 1
                                  THEN [IdleThreads[t] EXCEPT !.n = th[t].n + 1]
                                  ELSE [@ EXCEPT !.pc = "lock_unique", !.it = 0]]
    /\ UNCHANGED <<sources, listeners, store>>
    /\ UNCHANGED Frame

\* CAT 002: std::unique_lock lock(listenerMutex)
LockUnique(t) ==
    /\ th[t].pc = "lock_unique"
    /\ mutex[2].writer = 0
    /\ mutex[2].readers = {}
    /\ mutex' = [mutex EXCEPT ![2].writer = t]
    /\ th' = [th EXCEPT ![t].pc = "cleanup"]
    /\ UNCHANGED <<sources, listeners, store>>
    /\ UNCHANGED Frame

\* CAT 002: listeners.erase(remove_if(expired)), the lock released, return
Cleanup(t) ==
    /\ th[t].pc = "cleanup"
    /\ listeners' = [listeners EXCEPT ![2] = Prune(@, alive)]
    /\ mutex' = [mutex EXCEPT ![2].writer = 0]
    /\ th' = [th EXCEPT ![t] = [IdleThreads[t] EXCEPT !.n = th[t].n + 1]]
    /\ UNCHANGED <<sources, store>>
    /\ UNCHANGED Frame

\* Asterix1Handler::addListener(l): std::unique_lock lock(listenerMutex)
AddListenerLock ==
    /\ th[Application].pc = "idle"
    /\ th[Application].n < MaxThreadRecords
    /\ mutex[1].writer = 0
    /\ mutex[1].readers = {}
    /\ \E l \in alive :
          th' = [th EXCEPT ![Application].pc = "adding", ![Application].cat = 1,
                           ![Application].l = l]
    /\ mutex' = [mutex EXCEPT ![1].writer = Application]
    /\ UNCHANGED <<sources, listeners, store>>
    /\ UNCHANGED Frame

\* push_back unless std::find finds l; the lock released
AddListenerDone ==
    /\ th[Application].pc = "adding"
    /\ listeners' = [listeners EXCEPT ![1] =
                        IF \E j \in 1..Len(@) : @[j] = th[Application].l
                        THEN @ ELSE Append(@, th[Application].l)]
    /\ mutex' = [mutex EXCEPT ![1].writer = 0]
    /\ th' = [th EXCEPT ![Application] =
                    [IdleThreads[Application] EXCEPT !.n = th[Application].n + 1]]
    /\ UNCHANGED <<sources, store>>
    /\ UNCHANGED Frame

\* the owner of a listener lets go of it: its weak_ptr expires
Expire ==
    /\ \E l \in alive : alive' = alive \ {l}
    /\ UNCHANGED <<stats, sources, listeners, categoryHandlers, charSigned, last, tin,
                   th, mutex, store, registering, traffic, categoryPool, item>>

NextConc ==
    \/ \E t \in Producers : BeginRecord(t)
    \/ \E t \in Producers : GetBegin(t)
    \/ \E t \in Producers : GetEnd(t)
    \/ \E t \in Producers : UpdateBegin(t)
    \/ \E t \in Producers : UpdateEnd(t)
    \/ \E t \in Producers : LockShared(t)
    \/ \E t \in Producers : Deliver(t)
    \/ \E t \in Producers : SkipExpired(t)
    \/ \E t \in Producers : EraseBegin(t)
    \/ \E t \in Producers : EraseEnd(t)
    \/ \E t \in Producers : UnlockShared(t)
    \/ \E t \in Producers : LockUnique(t)
    \/ \E t \in Producers : Cleanup(t)
    \/ AddListenerLock
    \/ AddListenerDone
    \/ Expire

SpecConc == InitConc /\ [][NextConc]_vars

\* C5: no update of the source-state store is in progress while the other
\* thread is inside an update or a get
C5_StoreAccessSynchronised ==
    \A t \in Producers, o \in Producers :
        (t # o /\ store[t] = "write") => store[o] = "none"

\* C6: a thread changing a listener registry holds that registry's mutex
\* exclusively, a thread iterating it holds the mutex shared, and no thread
\* changes a registry while another iterates it
C6_RegistryMutationExclusive ==
    \A t \in 1..3 :
        /\ th[t].pc \in {"erasing", "cleanup", "adding"} =>
              /\ mutex[th[t].cat].writer = t
              /\ \A o \in Producers \ {t} :
                    ~(th[o].pc \in {"iterate", "erasing"} /\ th[o].cat = th[t].cat)
        /\ th[t].pc = "iterate" => t \in mutex[th[t].cat].readers

-----------------------------------------------------------------------------
(* Registration: addHandler calls on one category handler, then the same    *)
(* calls made again in the same order                                        *)

\* the handlers offered to addHandler: none (a null pointer), two mandatory
\* ones and one that is not
RegHandlers == {NoHandler, I001_010_Handler, I001_020_Handler, I001_040_Handler}
\* the FRNs offered: both ends of the first FSPEC byte, the second and third
\* byte, the last slot of the table, and the two values addHandler refuses
RegFrns == {0, 1, 7, 8, 15, MAX_FRNS, MAX_FRNS + 1}

RegFrame == <<stats, sources, listeners, alive, categoryHandlers, charSigned,
              last, tin, th, mutex, store, traffic, categoryPool, item>>

InitReg ==
    /\ stats = ZeroStats
    /\ sources = <<>>
    /\ listeners = [c \in {1, 2} |-> <<>>]
    /\ alive = {}
    /\ categoryHandlers = <<>>
    /\ charSigned = FALSE
    /\ last = NoCall
    /\ tin = NoTime
    /\ th = IdleThreads
    /\ mutex = FreeMutex
    /\ store = NoAccess
    /\ registering = Unregistered
    /\ traffic = "none"
    /\ categoryPool = NoPool
    /\ item = NoItem

\* addHandler(h, frn), a first time
AddHandlerCall ==
    /\ registering.again = 0
    /\ Len(registering.regs) < MaxRegistrations
    /\ \E h \in RegHandlers, frn \in RegFrns :
          registering' = [registering EXCEPT !.table = AddHandler(@, h, frn),
                                             !.regs = Append(@, <<h, frn>>)]
    /\ UNCHANGED RegFrame

\* the next of the calls already made, made again; once keeps the table as it
\* was when the first of them was repeated
AddHandlerAgain ==
    /\ registering.again < Len(registering.regs)
    /\ registering' =
          [registering EXCEPT
              !.table = AddHandler(@, registering.regs[registering.again + 1][1],
                                      registering.regs[registering.again + 1][2]),
              !.again = @ + 1,
              !.once = IF registering.again = 0 THEN registering.table ELSE @]
    /\ UNCHANGED RegFrame

NextReg == AddHandlerCall \/ AddHandlerAgain

SpecReg == InitReg /\ [][NextReg]_vars

\* C14: registering handlers a second time at the same FRNs leaves the
\* mandatory mask and mandatoryFspecSize as they were, after each repeated call
C14_ReRegistrationKeepsMask ==
    registering.again > 0 =>
        /\ registering.table.mandatoryFspec = registering.once.mandatoryFspec
        /\ registering.table.mandatoryFspecSize = registering.once.mandatoryFspecSize

\* two mandatory handlers, at FRN 1 and FRN 8, registered and both registered
\* again: the mask holds bit 7 of the first and of the second byte
C14_Witness ==
    /\ registering.again = 2
    /\ registering.regs = << <<I001_010_Handler, 1>>, <<I001_020_Handler, 8>> >>
    /\ registering.table.mandatoryFspec[1] = 128
    /\ registering.table.mandatoryFspec[2] = 128
    /\ registering.table.mandatoryFspecSize = 2

-----------------------------------------------------------------------------
(* The registration of category handlers at the dispatcher *)

\* the categories registered for, and the classes of the handlers made
RegCategories == {1, 2}
HandlerClasses == {"Asterix1Handler", "Asterix2Handler"}

\* the dispatcher as constructed: no handler registered; the listener of a
\* class is the one its handlers are given before they are registered
InitCat ==
    /\ stats = ZeroStats
    /\ sources = <<>>
    /\ listeners = [c \in {1, 2} |-> IF c = 1 THEN <<"a">> ELSE <<"b">>]
    /\ alive = {"a", "b"}
    /\ categoryHandlers = <<>>
    /\ charSigned = TRUE
    /\ last = NoCall
    /\ tin = NoTime
    /\ th = IdleThreads
    /\ mutex = FreeMutex
    /\ store = NoAccess
    /\ registering = NoRegistration
    /\ traffic = "categories"
    /\ categoryPool = NoPool
    /\ item = NoItem

\* the handler objects ever handed to registerCategoryHandler
Made(d) == {d.calls[n][2].id : n \in 1..Len(d.calls)} \ {0}

\* the application registers a handler it made, or an empty unique_ptr, before
\* it feeds the dispatcher
RegisterCall ==
    /\ Len(categoryPool.calls) < MaxCategoryCalls
    /\ last.seq = 0
    /\ \E category \in RegCategories,
          handler \in {NullHandlerObject}
                      \cup {HandlerObject(Cardinality(Made(categoryPool)) + 1, class) :
                                class \in HandlerClasses} :
          /\ categoryPool' =
                [RegisterCategoryHandler(categoryPool, category, handler)
                   EXCEPT !.calls = Append(@, <<category, handler>>)]
          /\ categoryHandlers' = SlotClasses(categoryPool')
    /\ UNCHANGED <<stats, sources, listeners, alive, charSigned, last, tin, th, mutex,
                   store, registering, traffic, item>>

NextCat == RegisterCall \/ HandlePacket

SpecCat == InitCat /\ [][NextCat]_vars

\* the calls that registered a handler for the category
RegisteredFor(category) ==
    {n \in 1..Len(categoryPool.calls) :
        /\ categoryPool.calls[n][1] = category
        /\ categoryPool.calls[n][2] # NullHandlerObject}

\* the handler registered last for the category
RegisteredLast(category) ==
    categoryPool.calls[CHOOSE n \in RegisteredFor(category) :
                          \A k \in RegisteredFor(category) : k <= n][2]

\* C21: after any sequence of registerCategoryHandler calls, calls for the same
\* category and calls with an empty handler included, the ownership pool holds
\* exactly one entry for each non-empty slot of the lookup table and no other,
\* the slot of a category points to the handler registered last for it, and
\* the records of a category are processed by that handler only
C21_PoolMatchesLookup ==
    /\ DOMAIN categoryPool.slot = {c \in RegCategories : RegisteredFor(c) # {}}
    /\ \A c \in DOMAIN categoryPool.slot :
          /\ categoryPool.slot[c] = RegisteredLast(c)
          /\ Cardinality({n \in 1..Len(categoryPool.pool) :
                            categoryPool.pool[n] = categoryPool.slot[c]}) = 1
    /\ Len(categoryPool.pool) = Cardinality(DOMAIN categoryPool.slot)
    /\ categoryHandlers = SlotClasses(categoryPool)
    /\ \A k \in 1..Len(last.log) :
          LET c == last.blocks[last.log[k].block].category
          IN  /\ c \in DOMAIN categoryPool.slot
              /\ last.log[k].handler = RegisteredLast(c).class

\* a call with an empty handler and two registrations for category 1 were
\* made, and the CAT 001 record fed then went to the handler registered last,
\* an Asterix2Handler
C21_Witness ==
    /\ Cardinality(RegisteredFor(1)) = 2
    /\ \E n \in 1..Len(categoryPool.calls) : categoryPool.calls[n][2] = NullHandlerObject
    /\ categoryPool.calls[CHOOSE n \in RegisteredFor(1) : TRUE][2].class
          # RegisteredLast(1).class
    /\ Len(last.log) > 0
    /\ last.log[1].handler = "Asterix2Handler"
    /\ last.blocks[1].category = 1

-----------------------------------------------------------------------------
(* The listener registries from one thread *)

\* the listeners the application adds to the CAT 001 handler
Subscribers == {"a", "c"}

\* addListener that does not look for the listener in the registry
AddListenerUnchecked(reg, l) ==
    IF l # "null" THEN Append(reg, l) ELSE reg

\* Asterix1Handler::addListener(l) on the registry, l = "null" a null pointer
AddListener(reg, l) ==
    IF l # "null" /\ ~\E j \in 1..Len(reg) : reg[j] = l
    THEN Append(reg, l)
    ELSE reg

\* the handlers registered, the CAT 002 handler with two listeners, of which
\* "d" has expired, the CAT 001 handler with none yet; registering.regs are the
\* addListener calls made
InitListen ==
    /\ stats = ZeroStats
    /\ sources = <<>>
    /\ listeners = [c \in {1, 2} |-> IF c = 1 THEN <<>> ELSE <<"b", "d">>]
    /\ alive = {"a", "b", "c"}
    /\ categoryHandlers = [c \in {1, 2} |-> IF c = 1 THEN "Asterix1Handler"
                                           ELSE "Asterix2Handler"]
    /\ charSigned = TRUE
    /\ last = NoCall
    /\ tin = NoTime
    /\ th = IdleThreads
    /\ mutex = FreeMutex
    /\ store = NoAccess
    /\ registering = NoRegistration
    /\ traffic = "categories"
    /\ categoryPool = Registered
    /\ item = NoItem

\* the application calls addListener with a listener it holds or with null
AddListenerCall ==
    /\ Len(registering.regs) < MaxListenerCalls
    /\ \E l \in (Subscribers \cap alive) \cup {"null"} :
          /\ listeners' = [listeners EXCEPT ![1] = AddListener(@, l)]
          /\ registering' = [registering EXCEPT !.regs = Append(@, l)]
    /\ UNCHANGED <<stats, sources, alive, categoryHandlers, charSigned, last, tin, th,
                   mutex, store, traffic, categoryPool, item>>

NextListen == AddListenerCall \/ Expire \/ HandlePacket

SpecListen == InitListen /\ [][NextListen]_vars

\* the registry of the handler of a class
RegistryOf(reg, handler) == IF handler = "Asterix1Handler" THEN reg[1] ELSE reg[2]

\* the callbacks due for the records of the log from entry k on: one for each
\* decoded record and live listener of its handler, as <<listener, source>>
RECURSIVE CallbacksDue(_, _, _, _)
CallbacksDue(log, k, reg, live) ==
    IF k > Len(log) THEN <<>>
    ELSE LET Live(l) == l \in live
             ls == SelectSeq(RegistryOf(reg, log[k].handler), Live)
         IN  (IF log[k].consumed > 0
              THEN [j \in 1..Len(ls) |-> <<ls[j], log[k].sourceIdentifier>>]
              ELSE <<>>)
             \o CallbacksDue(log, k + 1, reg, live)

\* the callbacks a call made, as <<listener, source>>
CallbacksMade(out) ==
    [j \in 1..Len(out) |-> <<out[j].listener, out[j].report.sourceIdentifier>>]

\* the records of a call's trace are in the order of the input: by block, then
\* by offset in the block, and the blocks by offset in the buffer
InInputOrder(tr) ==
    /\ \A i, j \in 1..Len(tr.blocks) :
          i < j => tr.blocks[i].offset < tr.blocks[j].offset
    /\ \A i, j \in 1..Len(tr.recs) :
          i < j =>
            /\ tr.recs[i].block <= tr.recs[j].block
            /\ tr.recs[i].block = tr.recs[j].block =>
                  tr.recs[i].offset < tr.recs[j].offset
            /\ (tr.recs[i].log > 0 /\ tr.recs[j].log > 0) =>
                  tr.recs[i].log < tr.recs[j].log
    /\ \A k \in 1..Len(tr.log) : \E i \in 1..Len(tr.recs) : tr.recs[i].log = k

\* a step that is a handlePacket call: what it must have delivered
DeliveredInOrder ==
    last'.seq # last.seq =>
       /\ CallbacksMade(last'.out) = CallbacksDue(last'.log, 1, listeners, alive)
       /\ InInputOrder(last')

TimesAdded(l) ==
    Cardinality({n \in 1..Len(registering.regs) : registering.regs[n] = l})

\* the callbacks to l among those a record of the log caused
CallbacksTo(tr, k, l) ==
    Cardinality({j \in (tr.log[k].outFrom + 1)..(tr.log[k].outFrom + tr.log[k].called) :
                    tr.out[j].listener = l})

\* a step of the registry: an addListener call or a handlePacket call
RegistryStep ==
    /\ \A i, j \in 1..Len(listeners'[1]) :
          listeners'[1][i] = listeners'[1][j] => i = j
    /\ \A l \in Subscribers \cup {"null"} :
          registering'.regs = Append(registering.regs, l) =>
             /\ (l = "null" \/ TimesAdded(l) > 0) => listeners' = listeners
             /\ (l # "null" /\ TimesAdded(l) = 0) =>
                   listeners'[1] = Append(listeners[1], l)
    /\ last'.seq # last.seq =>
          \A k \in 1..Len(last'.log) :
             (last'.log[k].handler = "Asterix1Handler" /\ last'.log[k].consumed > 0) =>
                \A l \in Subscribers :
                   CallbacksTo(last', k, l)
                      = IF TimesAdded(l) > 0 /\ l \in alive THEN 1 ELSE 0

\* C23: after any sequence of addListener calls the registry holds each
\* listener at most once, a listener added several times is called once for
\* each report, and adding a null listener changes nothing
C23_ListenerAddedOnce == [][RegistryStep]_vars

\* "a" was added twice, and the CAT 001 record fed then called it once
C23_Witness ==
    /\ registering.regs = <<"a", "a">>
    /\ listeners[1] = <<"a">>
    /\ last.data = B1_minimal
    /\ Len(last.out) = 1
    /\ last.out[1].listener = "a"

\* a null pointer was added, then "a": the registry holds "a" alone
C23_NullWitness ==
    /\ registering.regs = <<"null", "a">>
    /\ listeners[1] = <<"a">>
    /\ last.data = B1_minimal
    /\ Len(last.out) = 1

-----------------------------------------------------------------------------
(* The diagnostic counters under concurrent handlePacket calls *)

\* an atomic counter set to n instead of added to
StoreRelaxed(st, counter, n) == [st EXCEPT ![counter] = n]

\* std::atomic<uint64_t>::fetch_add(n, std::memory_order_relaxed) on a counter:
\* one indivisible read-modify-write (the 64 bits never wrap within the bounds)
FetchAdd(st, counter, n) == [st EXCEPT ![counter] = @ + n]

\* what the fetch_add calls of one handlePacket(data) call add to each counter
Increments(data, now) ==
    HandlePacketCall([stats |-> ZeroStats, sources |-> sources, listeners |-> listeners,
                      out |-> <<>>, writes |-> <<>>, log |-> <<>>, blocks |-> <<>>,
                      recs |-> <<>>],
                     data,
                     [now |-> now, alive |-> alive, charSigned |-> charSigned,
                      categoryHandlers |-> categoryHandlers]).m.stats

\* a producer thread outside handlePacket: todo is what its call has still to
\* add, alone what its calls add each on its own, met whether a fetch_add of
\* it was made while the other producer was inside handlePacket
IdleProducer ==
    [pc |-> "idle", todo |-> ZeroStats, alone |-> ZeroStats, calls |-> 0,
     nonempty |-> 0, met |-> FALSE]

InitStats ==
    /\ stats = ZeroStats
    /\ sources = <<>>
    /\ listeners = [c \in {1, 2} |-> IF c = 1 THEN <<"a">> ELSE <<"b">>]
    /\ alive = {"a", "b"}
    /\ categoryHandlers = [c \in {1, 2} |-> IF c = 1 THEN "Asterix1Handler"
                                           ELSE "Asterix2Handler"]
    /\ charSigned = TRUE
    /\ last = NoCall
    /\ tin = NoTime
    /\ th = [t \in Producers |-> IdleProducer]
    /\ mutex = FreeMutex
    /\ store = NoAccess
    /\ registering = NoRegistration
    /\ traffic = "counters"
    /\ categoryPool = Registered
    /\ item = NoItem

StatsFrame == <<sources, listeners, alive, categoryHandlers, charSigned, last, tin, mutex,
                store, registering, traffic, categoryPool, item>>

\* the sum of two sets of counters
Plus(a, b) == [c \in DOMAIN ZeroStats |-> a[c] + b[c]]

\* thread t calls handlePacket(data, size)
BeginCall(t) ==
    /\ th[t].pc = "idle"
    /\ th[1].calls + th[2].calls < MaxPackets
    /\ \E pkt \in Packets(1) :
          th' = [th EXCEPT ![t].pc = "running",
                           ![t].todo = Increments(pkt.data, 1193046),
                           ![t].alone = Plus(@, Increments(pkt.data, 1193046)),
                           ![t].calls = @ + 1,
                           ![t].nonempty = @ + (IF Len(pkt.data) > 0 THEN 1 ELSE 0)]
    /\ UNCHANGED stats
    /\ UNCHANGED StatsFrame

\* thread t makes one of the fetch_add calls its handlePacket call has to make:
\* 1 is added at a time, the trailing bytes are added at once
FetchAddStep(t) ==
    /\ th[t].pc = "running"
    /\ \E counter \in DOMAIN ZeroStats :
          /\ th[t].todo[counter] > 0
          /\ LET n == IF counter = "trailingBytesCount" THEN th[t].todo[counter] ELSE 1
             IN  /\ stats' = FetchAdd(stats, counter, n)
                 /\ th' = [th EXCEPT ![t].todo[counter] = @ - n,
                                      ![t].met = @ \/ th[3 - t].pc = "running"]
    /\ UNCHANGED StatsFrame

\* the handlePacket call of thread t returns
ReturnCall(t) ==
    /\ th[t].pc = "running"
    /\ th[t].todo = ZeroStats
    /\ th' = [th EXCEPT ![t].pc = "idle"]
    /\ UNCHANGED stats
    /\ UNCHANGED StatsFrame

NextStats ==
    \/ \E t \in Producers : BeginCall(t)
    \/ \E t \in Producers : FetchAddStep(t)
    \/ \E t \in Producers : ReturnCall(t)

SpecStats == InitStats /\ [][NextStats]_vars

\* a step of the counters: none decreases, and when every call has returned
\* each holds what the calls add on their own
CountersStep ==
    /\ \A c \in DOMAIN ZeroStats : stats'[c] >= stats[c]
    /\ (\A t \in Producers : th'[t].pc = "idle") =>
          /\ stats' = Plus(th'[1].alone, th'[2].alone)
          /\ stats'.totalPackets = th'[1].nonempty + th'[2].nonempty

\* C24: with handlePacket called from several threads at once no counter ever
\* decreases and no increment is lost: when all calls have returned,
\* totalPackets is the number of calls made with a non-empty buffer and every
\* other counter is the sum of what each call adds on its own
C24_NoIncrementLost == [][CountersStep]_vars

\* both producers have returned from calls whose fetch_add calls interleaved,
\* each call having added to recordParseErrors
C24_Witness ==
    /\ \A t \in Producers : th[t].pc = "idle" /\ th[t].calls = 1 /\ th[t].met
    /\ stats.totalPackets = 2
    /\ stats.recordParseErrors = 2

-----------------------------------------------------------------------------
(* Data item handlers applied to a view *)

\* the bytes the items decoded are made of
ItemBytes == {0, 1, 64, 127, 128, 255}

\* the bytes the views given to getSize are made of: FX set and clear
ExtentBytes == {0, 1, 128, 255}

\* the views of exactly n bytes drawn from the set
ItemViews(n, bytes) == [1..n -> bytes]

\* a handler about to be applied
Applied(kind, k, i, data) ==
    [kind |-> kind, k |-> k, i |-> i, data |-> data, done |-> FALSE, result |-> <<>>]

\* an I001/040 item, an I001/141 item, or an extended-length handler and a view
InitDecode ==
    /\ stats = ZeroStats
    /\ sources = <<>>
    /\ listeners = [c \in {1, 2} |-> <<>>]
    /\ alive = {}
    /\ categoryHandlers = <<>>
    /\ charSigned \in BOOLEAN
    /\ last = NoCall
    /\ tin = NoTime
    /\ th = IdleThreads
    /\ mutex = FreeMutex
    /\ store = NoAccess
    /\ registering = NoRegistration
    /\ traffic = "none"
    /\ categoryPool = NoPool
    /\ item \in {Applied("I001/040", 0, 0, data) : data \in ItemViews(4, ItemBytes)}
               \cup {Applied("I001/141", 0, 0, data) : data \in ItemViews(2, ItemBytes)}
               \cup {Applied("extended", k, i, data) :
                        k \in 1..MaxExtent, i \in 1..MaxExtent,
                        data \in UNION {ItemViews(n, ExtentBytes) : n \in 0..MaxViewLength}}

DecodeFrame == <<stats, sources, listeners, alive, categoryHandlers, charSigned, last,
                 tin, th, mutex, store, registering, traffic, categoryPool>>

\* handler.decode(report, data) on a default-constructed report
DecodeItem ==
    /\ ~item.done
    /\ item.kind \in {"I001/040", "I001/141"}
    /\ item' = [item EXCEPT
                  !.done = TRUE,
                  !.result = Decode(IF item.kind = "I001/040" THEN I001_040_Handler
                                    ELSE I001_141_Handler,
                                    Asterix1Report, item.data, charSigned)]
    /\ UNCHANGED DecodeFrame

\* AsterixDataItemHandlerExtendedLength(k, i).getSize(data)
GetItemSize ==
    /\ ~item.done
    /\ item.kind = "extended"
    /\ item' = [item EXCEPT !.done = TRUE,
                            !.result = ExtGetSize(item.k, item.i, item.data)]
    /\ UNCHANGED DecodeFrame

NextDecode == DecodeItem \/ GetItemSize

SpecDecode == InitDecode /\ [][NextDecode]_vars

\* a * pi / 32768 in 1e-8 rad lies between these two: pi * 1e8 is between
\* 314159265 = 9587 * 32768 + 12449 and 314159266
PiAzimuthLow(a) == a * 9587 + (a * 12449) \div 32768
PiAzimuthHigh(a) == a * 9587 + (a * 12450) \div 32768 + 1

\* C27: for every raw range r and raw azimuth a carried big-endian in the four
\* bytes of an I001/040 item the decoder sets range to (r / 128) * 1852.0 m and
\* azimuth to a * (pi / 32768) rad, within the 0.1 m and the 1e-4 rad of the
\* example 00 80 40 00, which gives 1852.0 m and pi / 2 rad
C27_PolarScaled ==
    (item.kind = "I001/040" /\ item.done) =>
       LET rr == item.data[1] * 256 + item.data[2]
           a == item.data[3] * 256 + item.data[4]
       IN  /\ ~item.result.thrown
           /\ item.result.report.range = rr * 1852
           /\ item.result.report.azimuth >= PiAzimuthLow(a) - 10000
           /\ item.result.report.azimuth <= PiAzimuthHigh(a) + 10000
           /\ item.data = <<0, 128, 64, 0>> =>
                 /\ item.result.report.range = 1852 * 128
                 /\ item.result.report.azimuth >= 157079632 - 10000
                 /\ item.result.report.azimuth <= 157079633 + 10000

\* the item 00 80 40 00 decoded
C27_Witness ==
    /\ item.kind = "I001/040"
    /\ item.done
    /\ item.data = <<0, 128, 64, 0>>
    /\ item.result.report.range = 237056

\* the largest raw values decoded: range 65535 / 128 NM
C27_LargestWitness ==
    /\ item.kind = "I001/040"
    /\ item.done
    /\ item.data = <<255, 255, 255, 255>>
    /\ item.result.report.range = 121370820

\* C29: for every pair of bytes b0, b1 of an I001/141 item the decoder stores
\* todLSP = 256 * b0 + b1 and sets hasLspClock; the high byte of todLSP is b0
\* also when b1 >= 0x80
C29_LspStoredUnaltered ==
    (item.kind = "I001/141" /\ item.done) =>
       /\ ~item.result.thrown
       /\ item.result.report.hasLspClock
       /\ item.result.report.todLSP = 256 * item.data[1] + item.data[2]
       /\ item.result.report.todLSP \div 256 = item.data[1]

\* the positions getSize looks at: k-1, k-1+i, ... inside the view
Scanned(k, i, data) ==
    {p \in 0..(Len(data) - 1) : p >= k - 1 /\ (p - (k - 1)) % i = 0}

\* the positions scanned whose byte has bit 0 clear
Ends(k, i, data) == {p \in Scanned(k, i, data) : data[p + 1] % 2 = 0}

\* C30: for an extended-length handler with k >= 1 and i >= 1 and every view,
\* getSize is p + 1 for the first p of k-1, k-1+i, ... whose byte has bit 0
\* clear, 0 when the view, the empty one included, ends before such a byte,
\* and never more than the length of the view
C30_SizeIsFirstEndPlusOne ==
    (item.kind = "extended" /\ item.done) =>
       /\ item.result <= Len(item.data)
       /\ item.result =
             IF Ends(item.k, item.i, item.data) = {} THEN 0
             ELSE 1 + CHOOSE p \in Ends(item.k, item.i, item.data) :
                         \A q \in Ends(item.k, item.i, item.data) : p <= q

\* a handler with k = 2 and i = 2 given a view whose second byte has FX set
\* and whose fourth has it clear: the size is 4, the whole view
C30_Witness ==
    /\ item.kind = "extended"
    /\ item.done
    /\ item.k = 2 /\ item.i = 2
    /\ item.data = <<0, 255, 1, 128>>
    /\ item.result = 4

\* a view that ends on a byte with FX set: the size is 0
C30_EndedWitness ==
    /\ item.kind = "extended"
    /\ item.done
    /\ item.k = 1 /\ item.i = 1
    /\ item.data = <<1, 255>>
    /\ item.result = 0

-----------------------------------------------------------------------------
(* Termination of handlePacket *)

\* the dispatchRecord calls made in block b of the last call, in order
RecsOf(b) == SelectSeq(last.recs, LAMBDA e : e.block = b)

\* C28: handlePacket ends for every finite buffer: each turn of the block loop
\* either advances by at least HEADER_SIZE bytes or is the last one, and each
\* turn of the record loop either advances the offset by at least one byte or
\* is the last one of its block, so that neither loop makes more turns than
\* the buffer has bytes
C28_LoopsAdvanceOrAbort ==
    /\ last.seq > 0 => (last.returned \/ last.thrown)
    /\ \A b \in 1..Len(last.blocks) :
          /\ last.blocks[b].length = 0 => b = Len(last.blocks)
          /\ last.blocks[b].length > 0 =>
                /\ last.blocks[b].length >= HEADER_SIZE
                /\ last.blocks[b].offset + last.blocks[b].length <= Len(last.data)
                /\ b < Len(last.blocks) =>
                      last.blocks[b + 1].offset
                         = last.blocks[b].offset + last.blocks[b].length
          /\ \A n \in 1..Len(RecsOf(b)) :
                /\ RecsOf(b)[n].consumed = 0 => n = Len(RecsOf(b))
                /\ RecsOf(b)[n].consumed > 0 =>
                      /\ RecsOf(b)[n].offset + RecsOf(b)[n].consumed
                            <= last.blocks[b].length
                      /\ n < Len(RecsOf(b)) =>
                            RecsOf(b)[n + 1].offset
                               = RecsOf(b)[n].offset + RecsOf(b)[n].consumed
    /\ Len(last.blocks) * HEADER_SIZE <= Len(last.data) + HEADER_SIZE
    /\ Len(last.recs) <= Len(last.data)

\* a call that went twice round the record loop in its first block, advanced
\* over it and left the block loop at a header it rejected
C28_Witness ==
    /\ last.data = B1_two \o B_len2
    /\ last.returned
    /\ Len(last.blocks) = 2
    /\ last.blocks[2].length = 0
    /\ Len(RecsOf(1)) = 2
    /\ RecsOf(1)[2].offset > RecsOf(1)[1].offset

-----------------------------------------------------------------------------
(* The time of day of CAT 001 reports *)

\* the dispatcher of the examples fed records that write and read the store
InitTod ==
    /\ stats = ZeroStats
    /\ sources = <<>>
    /\ listeners = [c \in {1, 2} |-> IF c = 1 THEN <<"a">> ELSE <<"b">>]
    /\ alive = {"a", "b"}
    /\ categoryHandlers = [c \in {1, 2} |-> IF c = 1 THEN "Asterix1Handler"
                                           ELSE "Asterix2Handler"]
    /\ charSigned \in BOOLEAN
    /\ last = NoCall
    /\ tin = NoTime
    /\ th = IdleThreads
    /\ mutex = FreeMutex
    /\ store = NoAccess
    /\ registering = NoRegistration
    /\ traffic = "times"
    /\ categoryPool = Registered
    /\ item = NoItem

SpecTod == InitTod /\ [][Next]_vars

\* the updateSourceTime calls of the last call made up to entry k of its log
RECURSIVE WritesUpTo(_)
WritesUpTo(k) == IF k = 0 THEN 0 ELSE last.log[k].wrote + WritesUpTo(k - 1)

\* what the store held for source si after the first n updateSourceTime calls
\* of the last call, -1 when it had no entry
StoreAfter(si, n) ==
    LET ws == {j \in 1..n : last.writes[j][1] = si}
    IN  IF ws # {}
        THEN last.writes[CHOOSE j \in ws : \A i \in ws : i <= j][2]
        ELSE IF si \in DOMAIN last.preSources THEN last.preSources[si] ELSE -1

\* the 16 bits the I001/141 item of a CAT 001 record carries: the two bytes
\* after the items of the FRNs before 7
LspCarried(e) ==
    LET RECURSIVE Before(_, _)
        Before(data, frn) ==
            IF frn = 7 THEN 256 * data[1] + data[2]
            ELSE IF FspecBit(e.fspec, frn)
            THEN Before(Drop(data, GetSize(Cat1Table.itemLookup[frn], data)), frn + 1)
            ELSE Before(data, frn + 1)
    IN  Before(e.payload, 1)

\* the time of day a CAT 001 record is due, given the reference ref
TodDue(e, ref) ==
    IF FspecBit(e.fspec, 7) THEN expandTruncatedTime(LspCarried(e), ref) ELSE ref

\* C26: a CAT 001 record of source S decoded while the store holds r for S is
\* delivered with the time of day expandTruncatedTime(lsp, r) if it carried
\* I001/141 and r otherwise, the store holds that time of day for S when the
\* listeners are called, and the clock is the reference only when the store
\* has no entry for S
C26_TodFromStoredReference ==
    \A k \in 1..Len(last.log) :
       (last.log[k].handler = "Asterix1Handler" /\ last.log[k].consumed > 0) =>
          LET e == last.log[k]
              n == WritesUpTo(k)
              r == StoreAfter(e.sourceIdentifier, n - 1)
          IN  /\ e.wrote = 1
              /\ last.writes[n][1] = e.sourceIdentifier
              /\ \A j \in 1..e.called :
                    last.out[e.outFrom + j].report.TOD = last.writes[n][2]
              /\ IF r # -1
                 THEN last.writes[n][2] = TodDue(e, r)
                 ELSE \E now \in ClockValues : last.writes[n][2] = TodDue(e, now)

\* the same with the truncated time the decoder stored in the report in place
\* of the 16 bits the record carried
C26_TodFromDecodedLsp ==
    \A k \in 1..Len(last.log) :
       (last.log[k].handler = "Asterix1Handler" /\ last.log[k].consumed > 0) =>
          LET e == last.log[k]
              n == WritesUpTo(k)
              r == StoreAfter(e.sourceIdentifier, n - 1)
              Due(ref) == IF FspecBit(e.fspec, 7)
                          THEN expandTruncatedTime(last.out[e.outFrom + 1].report.todLSP, ref)
                          ELSE ref
          IN  /\ e.wrote = 1 /\ e.called = 1
              /\ last.writes[n][1] = e.sourceIdentifier
              /\ last.out[e.outFrom + 1].report.TOD = last.writes[n][2]
              /\ IF r # -1
                 THEN last.writes[n][2] = Due(r)
                 ELSE \E now \in ClockValues : last.writes[n][2] = Due(now)

\* a CAT 001 record with I001/141 decoded after a CAT 002 record of its source
\* wrote the store
C26_Witness ==
    /\ last.data = B2_late \o B1_lsp
    /\ Len(last.out) = 2
    /\ last.preSources = <<>>
    /\ last.out[2].report.TOD = expandTruncatedTime(22136, last.out[1].report.TOD)

-----------------------------------------------------------------------------
(* The bytes read *)

\* the dispatcher of the examples fed blocks that end too early
InitBounds ==
    /\ stats = ZeroStats
    /\ sources = <<>>
    /\ listeners = [c \in {1, 2} |-> IF c = 1 THEN <<"a">> ELSE <<"b">>]
    /\ alive = {"a", "b"}
    /\ categoryHandlers = [c \in {1, 2} |-> IF c = 1 THEN "Asterix1Handler"
                                           ELSE "Asterix2Handler"]
    /\ charSigned \in BOOLEAN
    /\ last = NoCall
    /\ tin = NoTime
    /\ th = IdleThreads
    /\ mutex = FreeMutex
    /\ store = NoAccess
    /\ registering = NoRegistration
    /\ traffic = "bounds"
    /\ categoryPool = Registered
    /\ item = NoItem

SpecBounds == InitBounds /\ [][Next]_vars

\* a I001/020 decode that reads the second octet whether FX is set or not
DecodeReadsSecondOctet(h, data) ==
    CASE h.name \in {"I001/010", "I002/010", "I001/020", "I001/070", "I001/090",
                     "I001/141", "I002/041"} -> 2
      [] h.name = "I001/040" -> 4
      [] h.name = "I002/030" -> 3
      [] OTHER -> 0

\* the bytes of its view handler->decode reads, counted from the first
DecodeReads(h, data) ==
    CASE h.name \in {"I001/010", "I002/010", "I001/070", "I001/090", "I001/141",
                     "I002/041"} -> 2
      [] h.name = "I001/020" -> IF BitAnd(data[1], 1) # 0 THEN 2 ELSE 1
      [] h.name = "I001/040" -> 4
      [] h.name = "I002/030" -> 3
      [] OTHER -> 0

\* the positions (0-based) of its view handler->getSize reads: none for a
\* fixed length, those of the while loop for an extended length
RECURSIVE ExtReads(_, _, _)
ExtReads(data, currentPos, i) ==
    IF currentPos < Len(data)
    THEN {currentPos} \cup (IF BitAnd(data[currentPos + 1], 1) # 0
                            THEN ExtReads(data, currentPos + i, i)
                            ELSE {})
    ELSE {}

GetSizeReads(h, data) ==
    IF h.shape = "fixed" THEN {} ELSE ExtReads(data, h.k - 1, h.i)

\* the reads of the walk of one record stay inside what is left of the
\* payload, each decode inside its item, and an item the payload is too short
\* for ends the walk with malformedRecords
RECURSIVE ItemsWithin(_, _, _, _)
ItemsWithin(e, t, data, frn) ==
    IF frn > 7 * Len(e.fspec) THEN TRUE
    ELSE IF ~FspecBit(e.fspec, frn) THEN ItemsWithin(e, t, data, frn + 1)
    ELSE IF t.itemLookup[frn] = NoHandler THEN TRUE
    ELSE /\ \A p \in GetSizeReads(t.itemLookup[frn], data) : p >= 0 /\ p < Len(data)
         /\ IF GetSize(t.itemLookup[frn], data) = 0
                \/ GetSize(t.itemLookup[frn], data) > Len(data)
            THEN e.consumed = 0 /\ (e.thrown \/ e.counter = "malformedRecords")
            ELSE /\ DecodeReads(t.itemLookup[frn],
                                Take(data, GetSize(t.itemLookup[frn], data)))
                       <= GetSize(t.itemLookup[frn], data)
                 /\ ItemsWithin(e, t, Drop(data, GetSize(t.itemLookup[frn], data)), frn + 1)

\* the view dispatchRecord is given by the i-th dispatch of the last call
RecordViewOf(i) ==
    SubSeq(last.data,
           last.blocks[last.recs[i].block].offset + last.recs[i].offset + 1,
           last.blocks[last.recs[i].block].offset + last.blocks[last.recs[i].block].length)

\* C25: for a buffer of n bytes neither the dispatcher nor the FSPEC walker nor
\* a field handler reads a byte outside [0, n), no decode reads outside the
\* item of `size` bytes it is given, and a header, an FSPEC or an item that
\* runs out of bytes ends as a counted parse failure
C25_ReadsInsideBuffer ==
    /\ \A b \in 1..Len(last.blocks) :
          /\ last.blocks[b].offset + HEADER_SIZE <= Len(last.data)
          /\ last.blocks[b].offset + last.blocks[b].length <= Len(last.data)
    /\ Delta("malformedBlocks")
          = Cardinality({b \in 1..Len(last.blocks) : last.blocks[b].length = 0})
    /\ \A i \in 1..Len(last.recs) :
          /\ FspecScan(RecordViewOf(i), 0, 0, 0).fspecSize <= Len(RecordViewOf(i))
          /\ ~FspecScan(RecordViewOf(i), 0, 0, 0).ok =>
                last.recs[i].consumed = 0 /\ last.recs[i].log = 0
    /\ Delta("recordParseErrors")
          = Cardinality({i \in 1..Len(last.recs) :
                           last.recs[i].consumed = 0 /\ ~last.recs[i].thrown})
    /\ \A k \in 1..Len(last.log) :
          ~MandatoryMissing(TableOf(last.log[k].handler), last.log[k].fspec) =>
             ItemsWithin(last.log[k], TableOf(last.log[k].handler), last.log[k].payload, 1)
    /\ Delta("malformedRecords")
          = Cardinality({k \in 1..Len(last.log) : last.log[k].counter = "malformedRecords"})

\* one call met a block that ends inside the FSPEC of its record, then a block
\* that ends inside an item: two record parse errors and a malformed record
C25_Witness ==
    /\ last.data = B1_fspecrun \o B1_short
    /\ last.returned
    /\ Delta("recordParseErrors") = 2
    /\ Delta("malformedRecords") = 1
    /\ last.recs[1].log = 0

-----------------------------------------------------------------------------
(* The packet counter *)

\* every counter of AsterixStats but totalPackets
CountersButTotal ==
    {"trailingBytesCount", "unhandledCategories"} \cup OtherErrorCounters

\* C31: a handlePacket call with a non-empty buffer adds exactly 1 to
\* totalPackets whatever the buffer holds (also when a decoder throws); a call
\* with an empty buffer leaves trailingBytesCount and every error counter as
\* they were, and parses nothing
C31_OnePacketPerCall ==
    last.seq > 0 =>
       IF Len(last.data) > 0
       THEN Delta("totalPackets") = 1
       ELSE /\ \A c \in CountersButTotal : Delta(c) = 0
            /\ last.blocks = <<>> /\ last.recs = <<>> /\ last.out = <<>>

\* the second call was given four bytes that hold no block: both calls counted
C31_Witness ==
    /\ last.seq = 2
    /\ last.data = T_four
    /\ last.returned
    /\ last.blocks = <<>>
    /\ stats.totalPackets = 2
    /\ Delta("trailingBytesCount") = 4

\* a call with an empty buffer after a counted one: no counter moved
C31_EmptyWitness ==
    /\ last.seq = 2
    /\ last.data = <<>>
    /\ last.preStats.totalPackets = 1
    /\ stats = last.preStats

\* a call whose decoder threw was counted as well
C31_ThrownWitness ==
    /\ last.thrown
    /\ last.data = B1_reserved1
    /\ Delta("totalPackets") = 1

-----------------------------------------------------------------------------
(* The extent of the FSPEC *)

\* the dispatcher of the examples fed records with long FSPECs
InitFspec ==
    /\ stats = ZeroStats
    /\ sources = <<>>
    /\ listeners = [c \in {1, 2} |-> IF c = 1 THEN <<"a">> ELSE <<"b">>]
    /\ alive = {"a", "b"}
    /\ categoryHandlers = [c \in {1, 2} |-> IF c = 1 THEN "Asterix1Handler"
                                           ELSE "Asterix2Handler"]
    /\ charSigned \in BOOLEAN
    /\ last = NoCall
    /\ tin = NoTime
    /\ th = IdleThreads
    /\ mutex = FreeMutex
    /\ store = NoAccess
    /\ registering = NoRegistration
    /\ traffic = "fspecs"
    /\ categoryPool = Registered
    /\ item = NoItem

SpecFspec == InitFspec /\ [][Next]_vars

\* FX of a byte
Fx(byte) == byte % 2

\* the bytes of the view an FSPEC may occupy: the first MAX_FSPEC_SIZE at most
FspecRoom(view) == IF Len(view) < MAX_FSPEC_SIZE THEN Len(view) ELSE MAX_FSPEC_SIZE

\* no byte with FX = 0 among those an FSPEC may occupy
NoFspecEnd(view) == \A j \in 1..FspecRoom(view) : Fx(view[j]) = 1

\* the highest FRN whose bit is set in the FSPEC, 0 when none is
HighestFrn(fspec) ==
    LET set == {frn \in 1..(7 * Len(fspec)) : FspecBit(fspec, frn)}
    IN  IF set = {} THEN 0 ELSE CHOOSE f \in set : \A g \in set : g <= f

\* C32: a record whose first MAX_FSPEC_SIZE bytes all have FX = 1, or whose
\* bytes up to the end of the block all have FX = 1, makes dispatchRecord
\* return 0 without calling the category handler; every FSPEC handed to a
\* category handler has at most MAX_FSPEC_SIZE bytes, FX = 0 on its last byte
\* and FX = 1 on the bytes before it, so the FRNs of its bits are at most 70
C32_FspecExtentCapped ==
    /\ \A i \in 1..Len(last.recs) :
          IF NoFspecEnd(RecordViewOf(i))
          THEN /\ last.recs[i].consumed = 0
               /\ last.recs[i].log = 0
               /\ ~last.recs[i].thrown
          ELSE last.recs[i].log > 0
    /\ \A k \in 1..Len(last.log) :
          LET fspec == last.log[k].fspec
          IN  /\ Len(fspec) >= 1
              /\ Len(fspec) <= MAX_FSPEC_SIZE
              /\ Fx(fspec[Len(fspec)]) = 0
              /\ \A j \in 1..(Len(fspec) - 1) : Fx(fspec[j]) = 1
              /\ HighestFrn(fspec) <= 70

\* one call met a record whose first ten bytes all have FX = 1, which no
\* handler saw, then a record with an FSPEC of ten bytes and the bit of FRN 70,
\* which the handler was given and refused for the item without handler
C32_Witness ==
    /\ last.data = B1_fspec11 \o B1_frn70
    /\ last.returned
    /\ Len(last.recs) = 2
    /\ last.recs[1].consumed = 0
    /\ last.recs[1].log = 0
    /\ last.recs[2].log = 1
    /\ Len(last.log[1].fspec) = MAX_FSPEC_SIZE
    /\ HighestFrn(last.log[1].fspec) = 70
    /\ last.log[1].counter = "unhandledItems"

\* a record with an FSPEC of ten bytes was decoded and delivered
C32_TenBytesWitness ==
    /\ last.data = B1_fspec10
    /\ Len(last.out) = 1
    /\ last.recs[1].consumed = 13

\* the FSPEC of a record ran to the end of its block; the next block was parsed
C32_CutWitness ==
    /\ last.data = B1_fspecrun \o B1_minimal
    /\ last.recs[1].log = 0
    /\ Len(last.out) = 1

-----------------------------------------------------------------------------
(* Expired subscribers *)

\* whether the registry holds the listener
Subscribed(reg, l) == \E j \in 1..Len(reg) : reg[j] = l

\* a step keeps every subscriber whose owner still holds it in its registry,
\* and a callback is made only to a subscriber whose owner still holds it
LiveKeptExpiredSilent ==
    /\ \A c \in {1, 2} : \A l \in alive' :
          Subscribed(listeners[c], l) => Subscribed(listeners'[c], l)
    /\ \A t \in Producers :
          (th[t].pc = "iterate" /\ th'[t].pc = "iterate" /\ th'[t].it = th[t].it + 1
             /\ listeners' = listeners)
            => (listeners[th[t].cat][th[t].it] \in alive \/ th[t].cat = 2)

\* C33: an expired subscriber is never called by a later fan-out, and the
\* subscribers that are still alive stay subscribed, so that each later report
\* reaches each of them
C33_ExpiredDroppedLiveServed == [][LiveKeptExpiredSilent]_vars

\* expired subscribers and later fan-outs made from one thread: the callbacks
\* of a handlePacket call go to live subscribers only, each live subscriber
\* of a decoded record's handler is called once for it, and stays subscribed
ServedFromOneThread ==
    /\ \A c \in {1, 2} : \A l \in alive' :
          Subscribed(listeners[c], l) => Subscribed(listeners'[c], l)
    /\ last'.seq # last.seq =>
          /\ \A j \in 1..Len(last'.out) : last'.out[j].listener \in alive
          /\ \A k \in 1..Len(last'.log) :
                last'.log[k].consumed > 0 =>
                   \A l \in alive :
                      Subscribed(RegistryOf(listeners, last'.log[k].handler), l)
                         => CallbacksTo(last', k, l) = 1
          /\ \A c \in {1, 2} : \A j \in 1..Len(listeners'[c]) :
                (\E k \in 1..Len(last'.log) :
                    /\ last'.log[k].consumed > 0
                    /\ last'.log[k].handler = categoryHandlers[c])
                  => listeners'[c][j] \in alive

\* what C33 says, for handlePacket calls made from one thread
C33_ServedFromOneThread == [][ServedFromOneThread]_vars

-----------------------------------------------------------------------------
(* The mandatory mask and the handlers installed *)

\* whether the mask has the bit of the FRN set
MaskBit(t, frn) ==
    BitAnd(t.mandatoryFspec[((frn - 1) \div 7) + 1], Shl1(7 - ((frn - 1) % 7))) # 0

\* an FSPEC of 20 bytes with every bit set but the bit of the FRN
FspecLacking(frn) ==
    [b \in 1..20 |-> IF b = ((frn - 1) \div 7) + 1
                     THEN 255 - Shl1(7 - ((frn - 1) % 7)) ELSE 255]

\* C34: after any sequence of addHandler calls the mask has the bit of FRN f
\* set if and only if the handler installed at f is mandatory, and a record
\* lacking only the bit of an FRN whose installed handler is not mandatory is
\* not rejected for a missing mandatory item
C34_MaskMatchesInstalled ==
    registering.table # <<>> =>
       \A f \in 1..MAX_FRNS :
          /\ MaskBit(registering.table, f) <=> registering.table.itemLookup[f].mandatory
          /\ ~registering.table.itemLookup[f].mandatory =>
                ~MandatoryMissing(registering.table, FspecLacking(f))

\* the half of it that addHandler keeps: the bit of every FRN whose installed
\* handler is mandatory is set, and mandatoryFspecSize reaches its byte
C34_InstalledMandatoryHasBit ==
    registering.table # <<>> =>
       \A f \in 1..MAX_FRNS :
          registering.table.itemLookup[f].mandatory =>
             /\ MaskBit(registering.table, f)
             /\ registering.table.mandatoryFspecSize >= ((f - 1) \div 7) + 1

\* a mandatory handler at FRN 1 was replaced by one that is not mandatory
C34_Replaced ==
    /\ registering.regs = << <<I001_010_Handler, 1>>, <<I001_040_Handler, 1>> >>
    /\ registering.table.itemLookup[1] = I001_040_Handler
    /\ MaskBit(registering.table, 1)

-----------------------------------------------------------------------------
(* The range of the time of day *)

\* the dispatcher of the examples fed times of day within and beyond the day
InitDay ==
    /\ stats = ZeroStats
    /\ sources = <<>>
    /\ listeners = [c \in {1, 2} |-> IF c = 1 THEN <<"a">> ELSE <<"b">>]
    /\ alive = {"a", "b"}
    /\ categoryHandlers = [c \in {1, 2} |-> IF c = 1 THEN "Asterix1Handler"
                                           ELSE "Asterix2Handler"]
    /\ charSigned \in BOOLEAN
    /\ last = NoCall
    /\ tin = NoTime
    /\ th = IdleThreads
    /\ mutex = FreeMutex
    /\ store = NoAccess
    /\ registering = NoRegistration
    /\ traffic = "days"
    /\ categoryPool = Registered
    /\ item = NoItem

SpecDay == InitDay /\ [][Next]_vars

\* a time of day of the day: 0 <= tod < MAX_TOD
InDay(tod) == tod >= 0 /\ tod < maxTOD

\* the times of day delivered in CAT 001 reports by the last call are of the day
Cat1ReportsInDay ==
    \A j \in 1..Len(last.out) :
       last.out[j].report.cat = 1 => InDay(last.out[j].report.TOD)

\* C35: every time of day written to the source-state store and every time of
\* day delivered in a CAT 001 report lies in [0, MAX_TOD), whatever the 24 bits
\* of I002/030 of the CAT 002 records are
C35_TodInDay ==
    /\ \A j \in 1..Len(last.writes) : InDay(last.writes[j][2])
    /\ \A si \in DOMAIN sources : InDay(sources[si])
    /\ Cat1ReportsInDay

\* the part of it about the CAT 001 reports alone
C35_Cat1ReportsInDay == Cat1ReportsInDay

\* the entries of the log that are CAT 002 records decoded with a time of day
\* of the day, and the store before the call held times of the day only
Cat2InDay ==
    /\ \A si \in DOMAIN last.preSources : InDay(last.preSources[si])
    /\ \A k \in 1..Len(last.log) :
          (last.log[k].handler = "Asterix2Handler" /\ last.log[k].wrote = 1) =>
             InDay(last.writes[WritesUpTo(k)][2])

\* as long as the CAT 002 records carry times of the day, so do the store and
\* the CAT 001 reports
C35_InDayWhenCat2InDay == Cat2InDay => C35_TodInDay

\* a CAT 002 record with I002/030 = FF FF FF, then a CAT 001 record of its
\* source with I001/141: the store and the CAT 001 report hold a time beyond
\* the day
C35_Beyond ==
    /\ last.data = B2_overflow \o B1_lsp
    /\ last.returned
    /\ Len(last.out) = 2
    /\ last.writes[1][2] = 16777215
    /\ ~InDay(last.out[2].report.TOD)
    /\ ~InDay(sources[<<3, 4>>])

-----------------------------------------------------------------------------
(* The record counters *)

\* the counters a category handler raises when it gives a record up
RecordCounters == {"protocolViolations", "malformedRecords", "unhandledItems"}

\* the dispatchRecord calls of the last call that handed their record to the
\* k-th category handler call
DispatchesOf(k) == {i \in 1..Len(last.recs) : last.recs[i].log = k}

\* C36: in every state reached by handlePacket calls made from one thread,
\* recordParseErrors >= protocolViolations + malformedRecords + unhandledItems;
\* in a call that returns, each of the three is raised once for each record a
\* category handler gave up for that reason and never otherwise, and each such
\* record is one dispatchRecord call that returned 0 and one increment of
\* recordParseErrors
C36_RecordCountersWithinParseErrors ==
    /\ stats.recordParseErrors
          >= stats.protocolViolations + stats.malformedRecords + stats.unhandledItems
    /\ last.returned =>
          /\ \A c \in RecordCounters :
                Delta(c) = Cardinality({k \in 1..Len(last.log) : last.log[k].counter = c})
          /\ \A k \in 1..Len(last.log) :
                last.log[k].counter \in RecordCounters =>
                   /\ last.log[k].consumed = 0
                   /\ Cardinality(DispatchesOf(k)) = 1
                   /\ \A i \in DispatchesOf(k) : ParseError(i)
          /\ \A k \in 1..Len(last.log) :
                last.log[k].counter \notin RecordCounters => last.log[k].counter = "none"
          /\ Delta("recordParseErrors")
                = Cardinality({i \in 1..Len(last.recs) : ParseError(i)})
          /\ Delta("recordParseErrors")
                >= Delta("protocolViolations") + Delta("malformedRecords")
                   + Delta("unhandledItems")

\* one call met a record with an item without handler and a record cut inside
\* an item: unhandledItems and malformedRecords rose by 1 each,
\* recordParseErrors by 2
C36_Witness ==
    /\ last.data = B1_frn9 \o B1_short
    /\ last.returned
    /\ Delta("unhandledItems") = 1
    /\ Delta("malformedRecords") = 1
    /\ Delta("protocolViolations") = 0
    /\ Delta("recordParseErrors") = 2

\* a record without its mandatory items: protocolViolations and
\* recordParseErrors rose by 1 each
C36_ViolationWitness ==
    /\ last.data = B1_fspec40
    /\ last.returned
    /\ Delta("protocolViolations") = 1
    /\ Delta("recordParseErrors") = 1

-----------------------------------------------------------------------------
(* Records and the declared length of their block *)

\* the block of the i-th dispatchRecord call of the last call
BlockOf(i) == last.blocks[last.recs[i].block]

\* the bytes of the buffer from the start of the i-th dispatched record on,
\* those of the following blocks included
WideViewOf(i) ==
    SubSeq(last.data, BlockOf(i).offset + last.recs[i].offset + 1, Len(last.data))

\* the bytes the block has left from the start of the i-th dispatched record
LeftInBlock(i) == BlockOf(i).length - last.recs[i].offset

\* the length of the FSPEC a view begins with, 0 when it has none
FspecExtent(view) ==
    IF NoFspecEnd(view) THEN 0
    ELSE CHOOSE n \in 1..FspecRoom(view) :
            Fx(view[n]) = 0 /\ \A j \in 1..(n - 1) : Fx(view[j]) = 1

\* -1 stands for an item the view cannot satisfy
AddExtent(size, rest) == IF rest = -1 THEN -1 ELSE size + rest

\* the bytes the items of the FSPEC take in the view from FRN frn on, -1 when
\* an item has no handler or the view does not hold it
RECURSIVE ItemsExtent(_, _, _, _)

ItemExtent(t, fspec, data, frn, size) ==
    IF size = 0 \/ size > Len(data) THEN -1
    ELSE AddExtent(size, ItemsExtent(t, fspec, Drop(data, size), frn + 1))

ItemsExtent(t, fspec, data, frn) ==
    IF frn > 7 * Len(fspec) THEN 0
    ELSE IF ~FspecBit(fspec, frn) THEN ItemsExtent(t, fspec, data, frn + 1)
    ELSE IF t.itemLookup[frn] = NoHandler THEN -1
    ELSE ItemExtent(t, fspec, data, frn, GetSize(t.itemLookup[frn], data))

\* the bytes a record takes when the view holds it whole, -1 when it does not
RecordExtent(t, view, n) ==
    IF n = 0 THEN -1
    ELSE AddExtent(n, ItemsExtent(t, Take(view, n), Drop(view, n), 1))

\* the record the i-th dispatch began at is whole in the bytes of the buffer
\* but not in those of its block
PastDeclaredEnd(i) ==
    /\ RecordExtent(TableOf(categoryHandlers[BlockOf(i).category]), WideViewOf(i),
                    FspecExtent(WideViewOf(i))) # -1
    /\ RecordExtent(TableOf(categoryHandlers[BlockOf(i).category]), WideViewOf(i),
                    FspecExtent(WideViewOf(i))) > LeftInBlock(i)

\* C37: every record is dispatched at an offset inside the declared length of
\* its block and consumes no byte beyond it, the FSPEC and the payload handed
\* to a category handler are the bytes up to the declared end and no more, and
\* a record that the bytes of the buffer would satisfy but those of its block
\* do not is rejected as a record error
C37_RecordInsideDeclaredLength ==
    /\ \A i \in 1..Len(last.recs) :
          /\ last.recs[i].offset >= HEADER_SIZE
          /\ last.recs[i].offset < BlockOf(i).length
          /\ last.recs[i].offset + last.recs[i].consumed <= BlockOf(i).length
          /\ last.recs[i].log > 0 =>
                last.log[last.recs[i].log].fspec \o last.log[last.recs[i].log].payload
                   = Take(WideViewOf(i), LeftInBlock(i))
          /\ PastDeclaredEnd(i) =>
                /\ last.recs[i].consumed = 0
                /\ last.recs[i].thrown \/ ParseError(i)
    /\ last.returned =>
          Delta("recordParseErrors")
             >= Cardinality({i \in 1..Len(last.recs) : PastDeclaredEnd(i)})

\* a block that ends inside I001/020 of its record, followed by a block whose
\* first bytes would complete the item: the record is a malformed record, and
\* the two records of the block after it are delivered
C37_Witness ==
    /\ last.data = B1_short \o B1_two
    /\ last.returned
    /\ PastDeclaredEnd(1)
    /\ last.recs[1].consumed = 0
    /\ Delta("malformedRecords") = 1
    /\ Delta("recordParseErrors") = 1
    /\ Len(last.out) = 2

\* a block that ends inside the FSPEC of its record, followed by a block whose
\* first bytes would end the FSPEC
C37_FspecWitness ==
    /\ Len(last.recs) >= 1
    /\ SubSeq(last.data, 1, 5) = B1_fspecrun
    /\ Len(last.data) > 5
    /\ FspecExtent(WideViewOf(1)) > LeftInBlock(1)
    /\ last.recs[1].consumed = 0
    /\ last.recs[1].log = 0

-----------------------------------------------------------------------------
(* The entries of the source-state store *)

\* the sources of the records the last call decoded (consumed > 0)
DecodedSources ==
    {last.log[k].sourceIdentifier : k \in {j \in 1..Len(last.log) : last.log[j].consumed > 0}}

\* what the store held after the first n updateSourceTime calls of the last
\* call: the keys, and the entry of a key
KeysAfter(n) == DOMAIN last.preSources \cup {last.writes[j][1] : j \in 1..n}

\* C38: a record whose decoded source identifier is S changes at most the
\* entry of S in the source-state store: it makes one updateSourceTime call,
\* for S; the entries of all other keys stay as they were, through each record
\* and through the whole call, and no entry is ever removed
C38_OnlyOwnEntryChanged ==
    /\ \A k \in 1..Len(last.log) :
          /\ last.log[k].wrote = (IF last.log[k].consumed > 0 THEN 1 ELSE 0)
          /\ last.log[k].wrote = 1 =>
                last.writes[WritesUpTo(k)][1] = last.log[k].sourceIdentifier
    /\ Len(last.writes) = WritesUpTo(Len(last.log))
    /\ DOMAIN sources = KeysAfter(Len(last.writes))
    /\ \A si \in DOMAIN sources : sources[si] = StoreAfter(si, Len(last.writes))
    /\ \A si \in DOMAIN last.preSources :
          /\ si \in DOMAIN sources
          /\ si \notin DecodedSources => sources[si] = last.preSources[si]
    /\ \A si \in DOMAIN sources :
          si \notin DOMAIN last.preSources => si \in DecodedSources

\* the store held an entry for (3,4); a call decoded records of (1,2) only:
\* the entry of (3,4) is as it was and the one of (1,2) exists
C38_Witness ==
    /\ last.seq = 2
    /\ last.returned
    /\ DOMAIN last.preSources = {<<3, 4>>}
    /\ DecodedSources = {<<1, 2>>}
    /\ DOMAIN sources = {<<1, 2>>, <<3, 4>>}
    /\ sources[<<3, 4>>] = last.preSources[<<3, 4>>]

\* one call decoded records of two sources: each wrote its own entry
C38_TwoSourcesWitness ==
    /\ last.data = B2_late \o B2_north
    /\ last.writes = << <<<<3, 4>>, 11059184>>, <<<<1, 2>>, 1193046>> >>
    /\ sources[<<3, 4>>] = 11059184


\* a step of concurrent handlePacket calls removes no entry of the store and
\* changes or creates only the entry of the source whose update completes
OwnEntryStep ==
    /\ \A si \in DOMAIN sources : si \in DOMAIN sources'
    /\ \A si \in DOMAIN sources' :
          (si \notin DOMAIN sources \/ sources'[si] # sources[si]) =>
             \E t \in Producers : th[t].pc = "updating" /\ th[t].si = si

\* what C38 says, for the updates of two threads that overlap
C38_OwnEntryAmongThreads == [][OwnEntryStep]_vars

-----------------------------------------------------------------------------
(* The mandatory items of CAT 001 *)

\* the first FSPEC byte has bit 7 (FRN 1, I001/010) and bit 6 (FRN 2, I001/020)
HasSourceAndDescriptor(fspec) == Len(fspec) >= 1 /\ BitAnd(fspec[1], 192) = 192

\* the entry of the log whose record caused the j-th callback of the last call
CauseOf(j) ==
    CHOOSE k \in 1..Len(last.log) :
       last.log[k].outFrom < j /\ j <= last.log[k].outFrom + last.log[k].called

C39_DeliveredWitness ==
    /\ last.data = B1_example
    /\ Len(last.out) = 1
    /\ last.out[1].report.cat = 1
    /\ HasSourceAndDescriptor(last.log[1].fspec)

=============================================================================
